---------------------------- MODULE Spec2Model ----------------------------
(***************************************************************************)
(* Document indexing and retrieval engine (document_indexer.py, rag.py).   *)
(*                                                                         *)
(* The state machines below share the variables:                           *)
(*   SpecSplit  - one call of split_text_into_chunks, one loop iteration   *)
(*                per step;                                                *)
(*   SpecIndex  - one call of index_documents, one file / one chunk per    *)
(*                step;                                                    *)
(*   SpecBuild  - index_documents called directly or from the scripts      *)
(*                index_documents.py and index_project_docs.py;            *)
(*   SpecQuery  - one call of query_with_rag, one retrieval stage per step;*)
(*   SpecStore  - save_index and load_index on a file system;              *)
(*   SpecSearch, SpecCosine, SpecFilter, SpecRerank - one call of          *)
(*                search_index, of cosine_similarity, of                   *)
(*                filter_by_relevance_threshold, of rerank_results;        *)
(*   SpecBatch  - one call of get_embeddings_batch, one text per step;     *)
(*   SpecShared - two queries over one loaded index, one stage per step;   *)
(*   SpecAnalyze - one call of analyze_review_for_critical_issues          *)
(*                (review_pr.py);                                          *)
(*   SpecRace   - save_index writing a path while load_index or            *)
(*                query_with_rag reads it, one file operation per step.    *)
(***************************************************************************)
EXTENDS Integers, Sequences, FiniteSets, TLC

VARIABLES split, idx, rag, disk, store, script, fn

vars == <<split, idx, rag, disk, store, script, fn>>

(***************************************************************************)
(* Bounds of the model.                                                    *)
(***************************************************************************)
MaxTextLen == 6
MaxChunkSize == 4
MaxOverlap == 4
NegRange == 1

Chars == {"a", "b"}

Texts == UNION {[1..n -> Chars] : n \in 0..MaxTextLen}

ChunkSizes == (0 - NegRange)..MaxChunkSize

Overlaps == (0 - NegRange)..MaxOverlap

Min(a, b) == IF a <= b THEN a ELSE b

\* an optional argument: {} is None, {v} is the value v
None == {}

Some(v) == {v}

ValueOf(opt) == CHOOSE v \in opt : TRUE

\* x if x is not None else d
OrDefault(opt, d) == IF opt = None THEN d ELSE ValueOf(opt)

(***************************************************************************)
(* split_text_into_chunks                                                  *)
(***************************************************************************)

\* text[start:end] for 0 <= start <= end <= len(text)
Slice(text, start, end) == SubSeq(text, start + 1, end)

\* a chunk as split_text_into_chunks builds it
Chunk(text, start, end, chunk_index) ==
    [text |-> Slice(text, start, end), start |-> start, end |-> end,
     chunk_index |-> chunk_index]

\* the state of a call that has not started: arguments bound, nothing run
SplitCall(text, chunk_size, overlap) ==
    [pc |-> "entry", text |-> text, chunk_size |-> chunk_size,
     overlap |-> overlap, chunks |-> <<>>, start |-> 0, chunk_index |-> 0,
     step |-> 0, estimated_chunks |-> 0, prev_start |-> 0 - 1]

\* the short-text test that precedes every other check
IsShortText(text_length, chunk_size) == text_length <= chunk_size

\* step = chunk_size - overlap
StepOf(chunk_size, overlap) == chunk_size - overlap

\* estimated_chunks = (text_length + step - 1) // step if step > 0 else 1
EstimatedChunks(text_length, step) ==
    IF step > 0 THEN (text_length + step - 1) \div step ELSE 1

\* from the entry of the function to the first test of the while loop
SplitEntry(s) ==
    LET text_length == Len(s.text)
        step == StepOf(s.chunk_size, s.overlap)
    IN  IF IsShortText(text_length, s.chunk_size)
        THEN [s EXCEPT !.pc = "returned",
                       !.chunks = <<Chunk(s.text, 0, text_length, 0)>>]
        ELSE IF step <= 0
        THEN [s EXCEPT !.pc = "raised", !.step = step]
        ELSE [s EXCEPT !.pc = "loop", !.step = step,
                       !.estimated_chunks = EstimatedChunks(text_length, step)]

\* end = min(start + chunk_size, text_length)
WindowEnd(start, chunk_size, text_length) == Min(start + chunk_size, text_length)

\* the next window starts where the last one ended: the overlap is lost
NewStartNoOverlap(end, overlap) == end

\* new_start = end - overlap
NewStart(end, overlap) == end - overlap

\* the guards that leave the loop
IsDuplicateStart(start, prev_start) == start = prev_start

IsEmptyChunk(chunk_text_length) == chunk_text_length <= 0

\* the end-of-text test off by one
ReachedEndStrict(end, text_length) == end > text_length

ReachedEnd(end, text_length) == end >= text_length

\* the progress test off by one: a step of 1 counts as no progress
NoProgressOffByOne(new_start, start) == new_start <= start + 1

NoProgress(new_start, start) == new_start <= start

OverCap(chunk_index, estimated_chunks) == chunk_index > estimated_chunks * 2

\* the sliding window with no guard but the while condition
SplitIterUnguarded(s) ==
    LET text_length == Len(s.text)
        end == Min(s.start + s.chunk_size, text_length)
    IN  IF ~(s.start < text_length)
        THEN [s EXCEPT !.pc = "returned"]
        ELSE [s EXCEPT !.chunks = Append(s.chunks,
                           [text |-> SubSeq(s.text, s.start + 1, end),
                            start |-> s.start, end |-> end,
                            chunk_index |-> s.chunk_index]),
                       !.prev_start = s.start,
                       !.start = end - s.overlap,
                       !.chunk_index = s.chunk_index + 1]

\* one evaluation of the while condition and, when it holds, of the loop body
SplitIter(s) ==
    LET text_length == Len(s.text)
        end == WindowEnd(s.start, s.chunk_size, text_length)
        chunk_text_length == end - s.start
        new_start == NewStart(end, s.overlap)
        appended == [s EXCEPT !.chunks = Append(s.chunks,
                                  Chunk(s.text, s.start, end, s.chunk_index)),
                              !.prev_start = s.start]
    IN  IF ~(s.start < text_length)
        THEN [s EXCEPT !.pc = "returned"]
        ELSE IF IsDuplicateStart(s.start, s.prev_start)
        THEN [s EXCEPT !.pc = "returned"]
        ELSE IF IsEmptyChunk(chunk_text_length)
        THEN [s EXCEPT !.pc = "returned"]
        ELSE IF ReachedEnd(end, text_length)
        THEN [appended EXCEPT !.pc = "returned"]
        ELSE IF NoProgress(new_start, s.start)
        THEN [appended EXCEPT !.pc = "returned"]
        ELSE IF OverCap(s.chunk_index + 1, s.estimated_chunks)
        THEN [appended EXCEPT !.pc = "returned", !.start = new_start,
                              !.chunk_index = s.chunk_index + 1]
        ELSE [appended EXCEPT !.start = new_start,
                              !.chunk_index = s.chunk_index + 1]

\* one step of a call
SplitStep(s) == IF s.pc = "entry" THEN SplitEntry(s) ELSE SplitIter(s)

SplitDone(s) == s.pc \in {"returned", "raised"}

RECURSIVE SplitRun(_)
\* a call run to its end
SplitRun(s) == IF SplitDone(s) THEN s ELSE SplitRun(SplitStep(s))

\* split_text_into_chunks(text, chunk_size, overlap), as its final state
split_text_into_chunks(text, chunk_size, overlap) ==
    SplitRun(SplitCall(text, chunk_size, overlap))

IdxIdle == [pc |-> "idle"]

RagIdle == [pc |-> "idle"]

StoreIdle == [pc |-> "idle"]

ScriptIdle == [pc |-> "idle"]

FnIdle == [pc |-> "idle"]

\* a file system nothing of which is looked at
NoDisk == [dirs |-> {}, files |-> <<>>]

InitSplit ==
    /\ split \in {SplitCall(t, c, o) : t \in Texts, c \in ChunkSizes, o \in Overlaps}
    /\ idx = IdxIdle
    /\ rag = RagIdle
    /\ disk = NoDisk
    /\ store = StoreIdle
    /\ script = ScriptIdle
    /\ fn = FnIdle

SplitEnter ==
    /\ split.pc = "entry"
    /\ split' = SplitEntry(split)
    /\ UNCHANGED <<idx, rag, disk, store, script, fn>>

SplitLoop ==
    /\ split.pc = "loop"
    /\ split' = SplitIter(split)
    /\ UNCHANGED <<idx, rag, disk, store, script, fn>>

NextSplit == SplitEnter \/ SplitLoop

SpecSplit == InitSplit /\ [][NextSplit]_vars

SpecSplitFair == SpecSplit /\ WF_vars(NextSplit)


(***************************************************************************)
(* The file system, and the JSON text of an index file                     *)
(***************************************************************************)
INDEX_DIR == "document_index"

INDEX_FILE == "document_index/index.json"

CustomDir == "custom"

CustomPath == "custom/index.json"

Paths == {INDEX_FILE, CustomPath}

\* the directory open() needs for a path
DirOf(path) == IF path = INDEX_FILE THEN INDEX_DIR ELSE CustomDir

\* the values of a JSON document as json.load builds them: None, a number,
\* a string, a list, and a dict as the sequence of its items in key order
JNull == [t |-> "null"]

JNum(n) == [t |-> "num", v |-> n]

JStr(s) == [t |-> "str", v |-> s]

JArr(items) == [t |-> "arr", v |-> items]

JObj(items) == [t |-> "obj", v |-> items]

Item(key, value) == [k |-> key, v |-> value]

\* the text of a file is a sequence of JSON tokens: punctuation, a key with
\* its colon, and the scalars
Tok(s) == [t |-> s]

Key(key) == [t |-> "key", v |-> key]

RECURSIVE Dump(_), DumpArray(_, _), DumpObject(_, _)
\* json.dump(obj, f): the text written for a value
Dump(j) ==
    IF j.t = "arr"
    THEN <<Tok("[")>> \o DumpArray(j.v, 1) \o <<Tok("]")>>
    ELSE IF j.t = "obj"
    THEN <<Tok("{")>> \o DumpObject(j.v, 1) \o <<Tok("}")>>
    ELSE <<j>>

\* the elements of a list from the i-th on, separated by commas
DumpArray(items, i) ==
    IF i > Len(items)
    THEN <<>>
    ELSE (IF i > 1 THEN <<Tok(",")>> ELSE <<>>)
             \o Dump(items[i]) \o DumpArray(items, i + 1)

\* the items of a dict from the i-th on, separated by commas
DumpObject(items, i) ==
    IF i > Len(items)
    THEN <<>>
    ELSE (IF i > 1 THEN <<Tok(",")>> ELSE <<>>)
             \o <<Key(items[i].k)>> \o Dump(items[i].v)
             \o DumpObject(items, i + 1)

\* a parse that raised json.JSONDecodeError
ParseError == [ok |-> FALSE, value |-> JNull, next |-> 0]

Parsed(value, next) == [ok |-> TRUE, value |-> value, next |-> next]

RECURSIVE ParseValue(_, _), ParseArray(_, _, _), ParseObject(_, _, _)
\* the JSON decoder: the value that starts at token i and the position after
\* it
ParseValue(toks, i) ==
    IF i > Len(toks)
    THEN ParseError
    ELSE IF toks[i].t \in {"null", "num", "str"}
    THEN Parsed(toks[i], i + 1)
    ELSE IF toks[i].t = "["
    THEN (IF i + 1 <= Len(toks) /\ toks[i + 1].t = "]"
          THEN Parsed(JArr(<<>>), i + 2)
          ELSE ParseArray(toks, i + 1, <<>>))
    ELSE IF toks[i].t = "{"
    THEN (IF i + 1 <= Len(toks) /\ toks[i + 1].t = "}"
          THEN Parsed(JObj(<<>>), i + 2)
          ELSE ParseObject(toks, i + 1, <<>>))
    ELSE ParseError

\* the elements of a list: a value at i, then a comma or the closing bracket
ParseArray(toks, i, items) ==
    LET r == ParseValue(toks, i)
    IN  IF ~r.ok \/ r.next > Len(toks)
        THEN ParseError
        ELSE IF toks[r.next].t = "]"
        THEN Parsed(JArr(Append(items, r.value)), r.next + 1)
        ELSE IF toks[r.next].t = ","
        THEN ParseArray(toks, r.next + 1, Append(items, r.value))
        ELSE ParseError

\* the items of a dict: a key at i and its value, then a comma or the
\* closing brace
ParseObject(toks, i, items) ==
    IF i > Len(toks) \/ toks[i].t # "key"
    THEN ParseError
    ELSE LET r == ParseValue(toks, i + 1)
         IN  IF ~r.ok \/ r.next > Len(toks)
             THEN ParseError
             ELSE IF toks[r.next].t = "}"
             THEN Parsed(JObj(Append(items, Item(toks[i].v, r.value))), r.next + 1)
             ELSE IF toks[r.next].t = ","
             THEN ParseObject(toks, r.next + 1,
                              Append(items, Item(toks[i].v, r.value)))
             ELSE ParseError

\* json.load(f): None stands for the JSONDecodeError of a text that is not
\* one JSON value
json_load(content) ==
    LET r == ParseValue(content, 1)
    IN  IF r.ok /\ r.next = Len(content) + 1 THEN Some(r.value) ELSE None

\* a file: its permissions let the process open it or not
File(content) == [readable |-> TRUE, content |-> content]

LockedFile(content) == [readable |-> FALSE, content |-> content]

\* ensure_index_dir(): os.makedirs(INDEX_DIR, exist_ok=True)
ensure_index_dir(d) == [d EXCEPT !.dirs = d.dirs \cup {INDEX_DIR}]

\* dict.get(key): the value of the first item of that key
JGet(obj, key) ==
    IF obj.t # "obj" \/ ~\E i \in 1..Len(obj.v) : obj.v[i].k = key
    THEN None
    ELSE Some(obj.v[CHOOSE i \in 1..Len(obj.v) :
                        /\ obj.v[i].k = key
                        /\ \A j \in 1..(i - 1) : obj.v[j].k # key].v)


(***************************************************************************)
(* index_documents                                                         *)
(***************************************************************************)
MaxFiles == 2
MaxFileLen == 2
MaxIdxChunkSize == 1
MaxBatchSize == 1

\* CHUNK_SIZE and CHUNK_OVERLAP, the defaults of the module
CHUNK_SIZE == 100
CHUNK_OVERLAP == 20
EMBEDDING_DIM == 768

FileChars == {"a"}

FileTexts == UNION {[1..n -> FileChars] : n \in 0..MaxFileLen}

\* a file of the file system: load_text_file raises on an unreadable one
Files ==
    {[readable |-> TRUE, text |-> t] : t \in FileTexts}
        \cup {[readable |-> FALSE, text |-> <<>>]}

FileLists == UNION {[1..n -> Files] : n \in 0..MaxFiles}

\* the vectors the embedding service answers with
Vectors == {<<1, 0>>}

\* get_embedding(text): None for the empty text and for every failure of the
\* call, else the vector of the response
EmbeddingOutcomes(text) ==
    IF Len(text) = 0 THEN {None} ELSE {None} \cup {Some(v) : v \in Vectors}

\* the arguments of a call of index_documents
IndexCall(file_paths, chunk_size, chunk_overlap, store_text, process_in_batches, batch_size, available) ==
    [pc |-> "entry", file_paths |-> file_paths, chunk_size |-> chunk_size,
     chunk_overlap |-> chunk_overlap, store_text |-> store_text,
     process_in_batches |-> process_in_batches, batch_size |-> batch_size,
     available |-> available, error |-> "", file_i |-> 1,
     all_chunks |-> <<>>, skipped |-> <<>>, batch_start |-> 0,
     embeddings |-> <<>>, indexed_chunks |-> <<>>, embed_calls |-> 0,
     index |-> None]

\* the probe's answer ignored
IndexProbeUnchecked(s) == [s EXCEPT !.pc = "preload"]

\* lines 341-354: the availability probe
IndexProbe(s) ==
    IF ~s.available
    THEN [s EXCEPT !.pc = "raised", !.error = "ConnectionError"]
    ELSE [s EXCEPT !.pc = "preload"]

\* lines 356-378: the test embedding, then the check of file_paths
IndexPreload(s) ==
    IF Len(s.file_paths) = 0
    THEN [s EXCEPT !.pc = "raised", !.error = "ValueError",
                   !.embed_calls = s.embed_calls + 1]
    ELSE [s EXCEPT !.pc = "files", !.embed_calls = s.embed_calls + 1]

\* lines 414-417: the chunks of one file, tagged with file and source name
TagChunks(chunks, file_path, source_name) ==
    [i \in 1..Len(chunks) |->
        [text |-> chunks[i].text, start |-> chunks[i].start,
         end |-> chunks[i].end, chunk_index |-> chunks[i].chunk_index,
         source_file |-> file_path, source_name |-> source_name]]

\* lines 386-433: one pass of the loop over file_paths; an exception of
\* load_text_file or of split_text_into_chunks skips the file; after the last
\* file the empty all_chunks raises
IndexFile(s) ==
    LET file == s.file_paths[s.file_i]
        current_chunk_size == OrDefault(s.chunk_size, CHUNK_SIZE)
        current_chunk_overlap == OrDefault(s.chunk_overlap, CHUNK_OVERLAP)
        r == split_text_into_chunks(file.text, current_chunk_size,
                                    current_chunk_overlap)
        failed == ~file.readable \/ r.pc = "raised"
        after == IF failed
                 THEN [s EXCEPT !.skipped = Append(s.skipped, s.file_i),
                                !.file_i = s.file_i + 1]
                 ELSE [s EXCEPT !.all_chunks =
                                    s.all_chunks \o TagChunks(r.chunks, s.file_i, 1),
                                !.file_i = s.file_i + 1]
    IN  IF after.file_i <= Len(s.file_paths)
        THEN after
        ELSE IF Len(after.all_chunks) = 0
        THEN [after EXCEPT !.pc = "raised", !.error = "ValueError"]
        ELSE [after EXCEPT !.pc = "embed"]

\* lines 441-447, 477: the chunks handed to one call of get_embeddings_batch
BatchEnd(s) ==
    IF s.process_in_batches /\ Len(s.all_chunks) > s.batch_size
    THEN Min(s.batch_start + s.batch_size, Len(s.all_chunks))
    ELSE Len(s.all_chunks)

\* lines 287-293: one call of get_embedding inside get_embeddings_batch
IndexEmbed(s, embedding) ==
    [s EXCEPT !.embeddings = Append(s.embeddings, embedding),
              !.embed_calls = s.embed_calls + 1]

\* lines 458-467, 481-489: a chunk with its embedding, the text dropped
\* unless store_text
Indexed(chunk, embedding, store_text) ==
    [text |-> IF store_text THEN Some(chunk.text) ELSE None,
     start |-> chunk.start, end |-> chunk.end,
     chunk_index |-> chunk.chunk_index, source_file |-> chunk.source_file,
     source_name |-> chunk.source_name, embedding |-> ValueOf(embedding)]

RECURSIVE AttachUntilFailure(_, _, _, _)
\* the zip cut at the first embedding that is None
AttachUntilFailure(chunks, embeddings, store_text, i) ==
    IF i > Len(embeddings) \/ embeddings[i] = None
    THEN <<>>
    ELSE <<Indexed(chunks[i], embeddings[i], store_text)>>
             \o AttachUntilFailure(chunks, embeddings, store_text, i + 1)

RECURSIVE Attach(_, _, _, _)
\* the zip of a batch with its embeddings: the chunks whose embedding is not
\* None, in order
Attach(chunks, embeddings, store_text, i) ==
    IF i > Len(embeddings)
    THEN <<>>
    ELSE (IF embeddings[i] = None
          THEN <<>>
          ELSE <<Indexed(chunks[i], embeddings[i], store_text)>>)
             \o Attach(chunks, embeddings, store_text, i + 1)

\* lines 494-505: the index structure
BuildIndex(s, indexed_chunks) ==
    [chunks |-> indexed_chunks,
     metadata |-> [source_name |-> 1,
                   source_files |-> [i \in 1..Len(s.file_paths) |-> i],
                   total_chunks |-> Len(indexed_chunks),
                   chunk_size |-> OrDefault(s.chunk_size, CHUNK_SIZE),
                   chunk_overlap |-> OrDefault(s.chunk_overlap, CHUNK_OVERLAP),
                   embedding_dim |-> EMBEDDING_DIM]]

\* the chunks of a batch put in front of those of the batches before it
IndexAttachInFront(s) ==
    LET batch == SubSeq(s.all_chunks, s.batch_start + 1, BatchEnd(s))
        indexed == Attach(batch, s.embeddings, s.store_text, 1) \o s.indexed_chunks
        after == [s EXCEPT !.indexed_chunks = indexed, !.embeddings = <<>>,
                           !.batch_start = BatchEnd(s)]
    IN  IF after.batch_start >= Len(s.all_chunks)
        THEN [after EXCEPT !.pc = "returned",
                           !.index = Some(BuildIndex(s, indexed))]
        ELSE after

\* the end of a batch: its embeddings are attached; after the last batch the
\* index is returned
IndexAttach(s) ==
    LET batch == SubSeq(s.all_chunks, s.batch_start + 1, BatchEnd(s))
        indexed == s.indexed_chunks \o Attach(batch, s.embeddings, s.store_text, 1)
        after == [s EXCEPT !.indexed_chunks = indexed, !.embeddings = <<>>,
                           !.batch_start = BatchEnd(s)]
    IN  IF after.batch_start >= Len(s.all_chunks)
        THEN [after EXCEPT !.pc = "returned",
                           !.index = Some(BuildIndex(s, indexed))]
        ELSE after

RECURSIVE IndexRun(_, _)
\* a call run to its end when the embedding of the i-th chunk of all_chunks
\* is oracle[i]
IndexRun(s, oracle) ==
    IF s.pc \in {"returned", "raised"}
    THEN s
    ELSE IF s.pc = "entry"
    THEN IndexRun(IndexProbe(s), oracle)
    ELSE IF s.pc = "preload"
    THEN IndexRun(IndexPreload(s), oracle)
    ELSE IF s.pc = "files"
    THEN IndexRun(IndexFile(s), oracle)
    ELSE IF s.batch_start + Len(s.embeddings) < BatchEnd(s)
    THEN IndexRun(IndexEmbed(s, oracle[s.batch_start + Len(s.embeddings) + 1]),
                  oracle)
    ELSE IndexRun(IndexAttach(s), oracle)

\* a file system without any index, and one that holds the index file of an
\* earlier run
EmptyDisk == [dirs |-> {}, files |-> [p \in Paths |-> None]]

OldIndex ==
    JObj(<<Item("chunks", JArr(<<>>)),
           Item("metadata", JObj(<<Item("total_chunks", JNum(0))>>))>>)

UsedDisk ==
    [dirs |-> {INDEX_DIR},
     files |-> [p \in Paths |->
                  IF p = INDEX_FILE THEN Some(File(Dump(OldIndex))) ELSE None]]

SplitIdle == [pc |-> "idle"]

OptChunkSizes == {None} \cup {Some(n) : n \in 1..MaxIdxChunkSize}

OptOverlaps == {None} \cup {Some(n) : n \in 0..MaxIdxChunkSize}

InitIndex ==
    /\ split = SplitIdle
    /\ rag = RagIdle
    /\ store = StoreIdle
    /\ script = ScriptIdle
    /\ fn = FnIdle
    /\ disk \in {EmptyDisk, UsedDisk}
    /\ idx \in {IndexCall(f, c, o, st, pb, bs, av) :
                  f \in FileLists, c \in OptChunkSizes, o \in OptOverlaps,
                  st \in BOOLEAN, pb \in BOOLEAN, bs \in 1..MaxBatchSize,
                  av \in BOOLEAN}

IdxProbe ==
    /\ idx.pc = "entry"
    /\ idx' = IndexProbe(idx)
    /\ disk' = ensure_index_dir(disk)
    /\ UNCHANGED <<split, rag, store, script, fn>>

IdxPreload ==
    /\ idx.pc = "preload"
    /\ idx' = IndexPreload(idx)
    /\ UNCHANGED <<split, rag, disk, store, script, fn>>

IdxFile ==
    /\ idx.pc = "files"
    /\ idx' = IndexFile(idx)
    /\ UNCHANGED <<split, rag, disk, store, script, fn>>

IdxEmbed ==
    /\ idx.pc = "embed"
    /\ idx.batch_start + Len(idx.embeddings) < BatchEnd(idx)
    /\ \E e \in EmbeddingOutcomes(
                  idx.all_chunks[idx.batch_start + Len(idx.embeddings) + 1].text) :
          idx' = IndexEmbed(idx, e)
    /\ UNCHANGED <<split, rag, disk, store, script, fn>>

IdxAttach ==
    /\ idx.pc = "embed"
    /\ idx.batch_start + Len(idx.embeddings) = BatchEnd(idx)
    /\ idx' = IndexAttach(idx)
    /\ UNCHANGED <<split, rag, disk, store, script, fn>>

NextIndex == IdxProbe \/ IdxPreload \/ IdxFile \/ IdxEmbed \/ IdxAttach

SpecIndex == InitIndex /\ [][NextIndex]_vars

(***************************************************************************)
(* The indexing scripts index_documents.py and index_project_docs.py       *)
(***************************************************************************)
Scripts == {"index_documents.py", "index_project_docs.py"}

\* the parameters of index_documents
IndexParams ==
    {"file_paths", "source_name", "process_in_batches", "batch_size",
     "chunk_size", "chunk_overlap", "store_text"}

\* the keywords both scripts pass to index_documents
ScriptKeywords ==
    {"source_name", "process_in_batches", "batch_size", "chunk_size",
     "chunk_overlap", "store_text", "use_openai"}

\* a call binds its keywords before the body runs: a keyword that is no
\* parameter raises TypeError
BindRaises(keywords) == ~(keywords \subseteq IndexParams)

\* a run of main(): the number of files found, the provider flag, whether
\* OPENAI_API_KEY is set and whether the embedding service answers the probe
ScriptRun(name, files_found, use_openai, api_key, available) ==
    [pc |-> "files", name |-> name, files_found |-> files_found,
     use_openai |-> use_openai, api_key |-> api_key, available |-> available,
     exit_code |-> None]

Exit(s, code) == [s EXCEPT !.pc = "exited", !.exit_code = Some(code)]

\* the list of files: none to index ends the run
ScriptFiles(s) == IF s.files_found = 0 THEN Exit(s, 1) ELSE [s EXCEPT !.pc = "provider"]

\* the check of the provider: a missing key or a failed probe ends the run
ScriptProviderUnchecked(s) == [s EXCEPT !.pc = "index"]

ScriptProvider(s) ==
    IF s.use_openai
    THEN (IF ~s.api_key THEN Exit(s, 1) ELSE [s EXCEPT !.pc = "index"])
    ELSE (IF ~s.available THEN Exit(s, 1) ELSE [s EXCEPT !.pc = "index"])

\* the try block: the call of index_documents, whose exception is caught and
\* ends the run with 1; save_index comes after the call returned
ScriptIndex(s) ==
    IF BindRaises(ScriptKeywords)
    THEN Exit(s, 1)
    ELSE [s EXCEPT !.pc = "indexing"]

InitScript ==
    /\ split = SplitIdle
    /\ idx = IdxIdle
    /\ rag = RagIdle
    /\ store = StoreIdle
    /\ fn = FnIdle
    /\ disk \in {EmptyDisk, UsedDisk}
    /\ script \in {ScriptRun(n, f, u, k, a) :
                     n \in Scripts, f \in 0..MaxFiles, u \in BOOLEAN,
                     k \in BOOLEAN, a \in BOOLEAN}

ScrFiles ==
    /\ script.pc = "files"
    /\ script' = ScriptFiles(script)
    /\ UNCHANGED <<split, idx, rag, disk, store, fn>>

ScrProvider ==
    /\ script.pc = "provider"
    /\ script' = ScriptProvider(script)
    /\ UNCHANGED <<split, idx, rag, disk, store, fn>>

ScrIndex ==
    /\ script.pc = "index"
    /\ script' = ScriptIndex(script)
    /\ UNCHANGED <<split, idx, rag, disk, store, fn>>

NextScript == ScrFiles \/ ScrProvider \/ ScrIndex

\* index_documents called directly, or through one of the scripts
InitBuild == InitIndex \/ InitScript

NextBuild == NextIndex \/ NextScript

SpecBuild == InitBuild /\ [][NextBuild]_vars

(***************************************************************************)
(* load_index, search_index (document_indexer.py) and the retrieval        *)
(* pipeline of rag.py                                                      *)
(***************************************************************************)
MaxIndexChunks == 2
MaxTopK == 1

\* similarities are kept in hundredths: 1.0 is 100
Scale == 100

\* the length past which a source's text is cut in the sources list
MaxSourceText == 200

\* the chunks an index file may hold: with text, with a text that differs
\* from another only in case and white space, without text (store_text
\* false), without embedding, and with an embedding of another dimension
ChunkPool ==
    { [text |-> Some(<<"a">>), embedding |-> Some(<<1, 0>>), source_file |-> 1],
      [text |-> Some(<<"A", " ">>), embedding |-> Some(<<3, 4>>), source_file |-> 2],
      [text |-> Some(<<"b">>), embedding |-> Some(<<0, 1>>), source_file |-> 1],
      [text |-> None, embedding |-> Some(<<1, 0>>), source_file |-> 2],
      [text |-> Some(<<"b">>), embedding |-> Some(<<1>>), source_file |-> 2] }

ChunkLists == UNION {[1..n -> ChunkPool] : n \in 0..MaxIndexChunks}

\* what a path of the file system holds: nothing, a file that is no JSON, a
\* JSON object without "chunks", or an index
FileStates ==
    {[kind |-> k, chunks |-> <<>>] : k \in {"absent", "malformed", "no_chunks"}}
        \cup {[kind |-> "index", chunks |-> c] : c \in ChunkLists}

AbsentFile == [kind |-> "absent", chunks |-> <<>>]

\* load_index without its except clause: what open and json.load fail on
\* is handed back
LoadIndexUnguarded(fs, file_path) ==
    IF file_path = None THEN None ELSE Some(fs[ValueOf(file_path)])

\* load_index(file_path): None when os.path.exists raises (file_path is
\* None, a TypeError the except clause swallows), when the file does not
\* exist, when open raises and when json.load raises or yields None; else
\* the parsed document
load_index(fs, file_path) ==
    IF file_path = None
    THEN None
    ELSE IF fs[ValueOf(file_path)].kind \in {"absent", "unreadable", "malformed", "null"}
    THEN None
    ELSE Some(fs[ValueOf(file_path)])

RECURSIVE Dot(_, _, _)
Dot(vec1, vec2, i) ==
    IF i > Len(vec1) THEN 0 ELSE vec1[i] * vec2[i] + Dot(vec1, vec2, i + 1)

\* math.sqrt on the sums of squares of the model's vectors, which are
\* perfect squares
Sqrt(n) == CHOOSE r \in 0..n : r * r <= n /\ (r + 1) * (r + 1) > n

\* cosine_similarity(vec1, vec2), in hundredths; raises on unequal lengths
cosine_similarity(vec1, vec2) ==
    IF Len(vec1) # Len(vec2)
    THEN [raised |-> TRUE, value |-> 0]
    ELSE LET dot_product == Dot(vec1, vec2, 1)
             magnitude1 == Sqrt(Dot(vec1, vec1, 1))
             magnitude2 == Sqrt(Dot(vec2, vec2, 1))
         IN  IF magnitude1 = 0 \/ magnitude2 = 0
             THEN [raised |-> FALSE, value |-> 0]
             ELSE [raised |-> FALSE,
                   value |-> (Scale * dot_product) \div (magnitude1 * magnitude2)]

RECURSIVE Scored(_, _, _)
\* lines 580-589: a result for every chunk that has an embedding
Scored(query_embedding, chunks, i) ==
    IF i > Len(chunks)
    THEN <<>>
    ELSE IF chunks[i].embedding = None
    THEN Scored(query_embedding, chunks, i + 1)
    ELSE <<[chunk |-> chunks[i],
            similarity |-> cosine_similarity(query_embedding,
                                             ValueOf(chunks[i].embedding)).value,
            rank |-> 0]>> \o Scored(query_embedding, chunks, i + 1)

\* whether some cosine_similarity of the loop raises
ScoringRaises(query_embedding, chunks) ==
    \E i \in 1..Len(chunks) :
        /\ chunks[i].embedding # None
        /\ cosine_similarity(query_embedding, ValueOf(chunks[i].embedding)).raised

RECURSIVE InsertDescUnstable(_, _)
\* r placed before the results of similarity equal to its own
InsertDescUnstable(sorted, r) ==
    IF sorted = <<>>
    THEN <<r>>
    ELSE IF Head(sorted).similarity > r.similarity
    THEN <<Head(sorted)>> \o InsertDescUnstable(Tail(sorted), r)
    ELSE <<r>> \o sorted

RECURSIVE InsertDesc(_, _)
\* r placed after every result of similarity >= its own
InsertDesc(sorted, r) ==
    IF sorted = <<>>
    THEN <<r>>
    ELSE IF Head(sorted).similarity >= r.similarity
    THEN <<Head(sorted)>> \o InsertDesc(Tail(sorted), r)
    ELSE <<r>> \o sorted

RECURSIVE SortDesc(_, _)
\* results.sort(key = similarity, reverse = True): stable
SortDesc(results, i) ==
    IF i = 0 THEN <<>> ELSE InsertDesc(SortDesc(results, i - 1), results[i])

\* for rank, result in enumerate(results, 1): result['rank'] = rank
Renumber(results) ==
    [i \in 1..Len(results) |-> [results[i] EXCEPT !.rank = i]]

\* results[:] in the place of results[:n]
WholeList(results, n) == results

\* results[:n] for n >= 0
Prefix(results, n) == SubSeq(results, 1, Min(n, Len(results)))

\* search_index(query, index, top_k); query_embedding is get_embedding(query)
search_index(query_embedding, index, top_k) ==
    IF index = None \/ ValueOf(index).kind = "no_chunks"
    THEN [raised |-> FALSE, results |-> <<>>]
    ELSE IF query_embedding = None
    THEN [raised |-> FALSE, results |-> <<>>]
    ELSE IF ScoringRaises(ValueOf(query_embedding), ValueOf(index).chunks)
    THEN [raised |-> TRUE, results |-> <<>>]
    ELSE LET results == Scored(ValueOf(query_embedding), ValueOf(index).chunks, 1)
             sorted == SortDesc(results, Len(results))
         IN  [raised |-> FALSE, results |-> Renumber(Prefix(sorted, top_k))]

RECURSIVE FilterStrict(_, _)
\* the filter with > in the place of >=
FilterStrict(results, threshold) ==
    IF threshold = None \/ ValueOf(threshold) <= 0 - Scale
    THEN results
    ELSE IF results = <<>>
    THEN <<>>
    ELSE (IF Head(results).similarity > ValueOf(threshold)
          THEN <<Head(results)>>
          ELSE <<>>) \o FilterStrict(Tail(results), threshold)

RECURSIVE filter_by_relevance_threshold(_, _)
\* the results of similarity >= threshold; all of them when the threshold
\* is None or <= -1.0
filter_by_relevance_threshold(results, threshold) ==
    IF threshold = None \/ ValueOf(threshold) <= 0 - Scale
    THEN results
    ELSE IF results = <<>>
    THEN <<>>
    ELSE (IF Head(results).similarity >= ValueOf(threshold)
          THEN <<Head(results)>>
          ELSE <<>>) \o filter_by_relevance_threshold(Tail(results), threshold)

\* str.lower on the characters of the model
Lower(c) == IF c = "A" THEN "a" ELSE IF c = "B" THEN "b" ELSE c

IsSpace(c) == c = " "

RECURSIVE NormalizeFrom(_, _, _)
\* ' '.join(text.lower().split()) from position i on; out is what has been
\* produced, and a run of white space becomes one blank between two words
NormalizeFrom(text, i, out) ==
    IF i > Len(text)
    THEN out
    ELSE IF IsSpace(text[i])
    THEN NormalizeFrom(text, i + 1, out)
    ELSE IF i > 1 /\ IsSpace(text[i - 1]) /\ out # <<>>
    THEN NormalizeFrom(text, i + 1, out \o <<" ", Lower(text[i])>>)
    ELSE NormalizeFrom(text, i + 1, Append(out, Lower(text[i])))

\* chunk.get('text', '')
TextOf(chunk) == IF chunk.text = None THEN <<>> ELSE ValueOf(chunk.text)

\* text_normalized of rerank_results
Normalized(chunk) == NormalizeFrom(TextOf(chunk), 1, <<>>)

RECURSIVE DiverseForgetful(_, _, _)
\* the loop of lines 77-85 without seen_texts.add
DiverseForgetful(results, i, seen_texts) ==
    IF i > Len(results)
    THEN <<>>
    ELSE IF Len(Normalized(results[i].chunk)) > 0
    THEN <<results[i]>> \o DiverseForgetful(results, i + 1, seen_texts)
    ELSE DiverseForgetful(results, i + 1, seen_texts)

RECURSIVE Diverse(_, _, _)
\* lines 74-85: the results whose normalized text is not empty and was not
\* seen before
Diverse(results, i, seen_texts) ==
    IF i > Len(results)
    THEN <<>>
    ELSE LET text_normalized == Normalized(results[i].chunk)
         IN  IF text_normalized \notin seen_texts /\ Len(text_normalized) > 0
             THEN <<results[i]>>
                      \o Diverse(results, i + 1, seen_texts \cup {text_normalized})
             ELSE Diverse(results, i + 1, seen_texts)

\* rerank_results whose else branch falls back to "diversity"
RerankUnknownAsDiversity(results, method) ==
    IF results = <<>>
    THEN results
    ELSE IF method = "similarity"
    THEN Renumber(results)
    ELSE IF method = "hybrid"
    THEN LET diverse_results == Renumber(Diverse(results, 1, {}))
         IN  Renumber(SortDesc(diverse_results, Len(diverse_results)))
    ELSE Renumber(Diverse(results, 1, {}))

\* rerank_results(results, query, method)
rerank_results(results, method) ==
    IF results = <<>>
    THEN results
    ELSE IF method = "similarity"
    THEN Renumber(results)
    ELSE IF method = "diversity"
    THEN Renumber(Diverse(results, 1, {}))
    ELSE IF method = "hybrid"
    THEN LET diverse_results == Renumber(Diverse(results, 1, {}))
         IN  Renumber(SortDesc(diverse_results, Len(diverse_results)))
    ELSE Renumber(results)

RECURSIVE ContextParts(_, _)
\* format_chunks_for_context: a labelled block for every result whose chunk
\* has a non-empty text; the context string is empty iff there is no block
ContextParts(results, i) ==
    IF i > Len(results)
    THEN <<>>
    ELSE (IF TextOf(results[i].chunk) # <<>>
          THEN <<[label |-> i, similarity |-> results[i].similarity,
                  source |-> results[i].chunk.source_file,
                  text |-> TextOf(results[i].chunk)]>>
          ELSE <<>>) \o ContextParts(results, i + 1)

format_chunks_for_context(chunks) == ContextParts(chunks, 1)

\* build_rag_prompt(question, context): the instruction template around the
\* context and the question, or the bare question when the context is empty
build_rag_prompt(question, context) ==
    IF context # <<>>
    THEN [template |-> TRUE, context |-> context, question |-> question]
    ELSE [template |-> FALSE, context |-> <<>>, question |-> question]

\* the prompt of a call without RAG: the question as it came
PlainPrompt(question) ==
    [template |-> FALSE, context |-> <<>>, question |-> question]

\* lines 334-342: the sources list
SourcesOf(results) ==
    [i \in 1..Len(results) |->
        [source_file |-> results[i].chunk.source_file,
         similarity |-> results[i].similarity,
         text |-> IF Len(TextOf(results[i].chunk)) > MaxSourceText
                  THEN Append(Prefix(TextOf(results[i].chunk), MaxSourceText), "...")
                  ELSE TextOf(results[i].chunk)]]

(***************************************************************************)
(* query_with_rag                                                          *)
(***************************************************************************)

\* the arguments of a call, the file system and the answer the embedding
\* service will give for the question
QueryCall(fs, embedding_service, top_k, index_path, relevance_threshold, rerank_method, use_filter) ==
    [pc |-> "entry", fs |-> fs, embedding_service |-> embedding_service,
     question |-> "q", conversation_history |-> "h", top_k |-> top_k,
     index_path |-> index_path, relevance_threshold |-> relevance_threshold,
     rerank_method |-> rerank_method, use_filter |-> use_filter,
     index |-> None, search_raised |-> FALSE, found |-> 0,
     search_results |-> <<>>, rag_prompt |-> None, llm_calls |-> <<>>,
     sources |-> <<>>]

\* lines 248-250: the index is loaded; without one the plain call follows
QueryLoad(s) ==
    LET index == load_index(s.fs, s.index_path)
    IN  IF index = None
        THEN [s EXCEPT !.pc = "plain"]
        ELSE [s EXCEPT !.pc = "search", !.index = index]

\* the search with its exception let through
QuerySearchUncaught(s) ==
    LET r == search_index(s.embedding_service, s.index, s.top_k * 2)
    IN  IF r.raised
        THEN [s EXCEPT !.pc = "raised", !.search_raised = TRUE]
        ELSE IF r.results = <<>>
        THEN [s EXCEPT !.pc = "plain"]
        ELSE [s EXCEPT !.pc = "filter", !.search_results = r.results,
                       !.found = Len(r.results)]

\* the search asking for top_k results only
QuerySearchSingle(s) ==
    LET r == search_index(s.embedding_service, s.index, s.top_k)
        search_results == IF r.raised THEN <<>> ELSE r.results
    IN  IF search_results = <<>>
        THEN [s EXCEPT !.pc = "plain", !.search_raised = r.raised]
        ELSE [s EXCEPT !.pc = "filter", !.search_results = search_results,
                       !.found = Len(search_results)]

\* lines 266-273: search_index for 2 * top_k results; an exception leaves no
\* results; without results the plain call follows
QuerySearch(s) ==
    LET r == search_index(s.embedding_service, s.index, s.top_k * 2)
        search_results == IF r.raised THEN <<>> ELSE r.results
    IN  IF search_results = <<>>
        THEN [s EXCEPT !.pc = "plain", !.search_raised = r.raised]
        ELSE [s EXCEPT !.pc = "filter", !.search_results = search_results,
                       !.found = Len(search_results)]

\* lines 288-290
QueryFilter(s) ==
    IF s.use_filter /\ s.relevance_threshold # None
    THEN [s EXCEPT !.pc = "rerank",
                   !.search_results =
                       filter_by_relevance_threshold(s.search_results,
                                                     s.relevance_threshold)]
    ELSE [s EXCEPT !.pc = "rerank"]

\* lines 293-295: rerank_method None or empty skips the rerank
QueryRerank(s) ==
    IF s.rerank_method # None
    THEN [s EXCEPT !.pc = "truncate",
                   !.search_results =
                       rerank_results(s.search_results, ValueOf(s.rerank_method))]
    ELSE [s EXCEPT !.pc = "truncate"]

\* lines 298-300: the cut to top_k; with nothing left the plain call follows
QueryTruncate(s) ==
    LET search_results == Prefix(s.search_results, s.top_k)
    IN  IF search_results = <<>>
        THEN [s EXCEPT !.pc = "plain", !.search_results = <<>>]
        ELSE [s EXCEPT !.pc = "context", !.search_results = search_results]

\* lines 315-319
QueryContext(s) ==
    [s EXCEPT !.pc = "augmented",
              !.rag_prompt =
                  Some(build_rag_prompt(s.question,
                                        format_chunks_for_context(s.search_results)))]

\* the plain call started with an empty history
QueryPlainFreshHistory(s) ==
    [s EXCEPT !.pc = "returned",
              !.llm_calls = Append(s.llm_calls,
                                   [prompt |-> PlainPrompt(s.question),
                                    history |-> ""]),
              !.sources = <<>>]

\* lines 252-262, 275-285, 302-312: query_openai with the question, and no
\* sources
QueryPlain(s) ==
    [s EXCEPT !.pc = "returned",
              !.llm_calls = Append(s.llm_calls,
                                   [prompt |-> PlainPrompt(s.question),
                                    history |-> s.conversation_history]),
              !.sources = <<>>]

\* lines 322-344: query_openai with the RAG prompt, then the sources
QueryAugmented(s) ==
    [s EXCEPT !.pc = "returned",
              !.llm_calls = Append(s.llm_calls,
                                   [prompt |-> ValueOf(s.rag_prompt),
                                    history |-> s.conversation_history]),
              !.sources = SourcesOf(s.search_results)]

QueryDone(s) == s.pc \in {"returned", "raised"}

FileSystems ==
    {[p \in Paths |-> IF p = w THEN f ELSE AbsentFile] :
        w \in Paths, f \in FileStates}

\* relevance thresholds, in hundredths
Thresholds == {None, Some(50)}

RerankMethods ==
    {None, Some("similarity"), Some("diversity"), Some("hybrid"), Some("other")}

EmbeddingAnswers == {None, Some(<<1, 0>>)}

InitQuery ==
    /\ split = SplitIdle
    /\ idx = IdxIdle
    /\ disk = NoDisk
    /\ store = StoreIdle
    /\ script = ScriptIdle
    /\ fn = FnIdle
    /\ rag \in {QueryCall(fs, e, k, ip, t, m, uf) :
                  fs \in FileSystems, e \in EmbeddingAnswers, k \in 0..MaxTopK,
                  ip \in {None, Some(CustomPath)}, t \in Thresholds,
                  m \in RerankMethods, uf \in BOOLEAN}

RagLoad ==
    /\ rag.pc = "entry"
    /\ rag' = QueryLoad(rag)
    /\ UNCHANGED <<split, idx, disk, store, script, fn>>

RagSearch ==
    /\ rag.pc = "search"
    /\ rag' = QuerySearch(rag)
    /\ UNCHANGED <<split, idx, disk, store, script, fn>>

RagFilter ==
    /\ rag.pc = "filter"
    /\ rag' = QueryFilter(rag)
    /\ UNCHANGED <<split, idx, disk, store, script, fn>>

RagRerank ==
    /\ rag.pc = "rerank"
    /\ rag' = QueryRerank(rag)
    /\ UNCHANGED <<split, idx, disk, store, script, fn>>

RagTruncate ==
    /\ rag.pc = "truncate"
    /\ rag' = QueryTruncate(rag)
    /\ UNCHANGED <<split, idx, disk, store, script, fn>>

RagContext ==
    /\ rag.pc = "context"
    /\ rag' = QueryContext(rag)
    /\ UNCHANGED <<split, idx, disk, store, script, fn>>

RagPlain ==
    /\ rag.pc = "plain"
    /\ rag' = QueryPlain(rag)
    /\ UNCHANGED <<split, idx, disk, store, script, fn>>

RagAugmented ==
    /\ rag.pc = "augmented"
    /\ rag' = QueryAugmented(rag)
    /\ UNCHANGED <<split, idx, disk, store, script, fn>>

NextQuery ==
    \/ RagLoad
    \/ RagSearch
    \/ RagFilter
    \/ RagRerank
    \/ RagTruncate
    \/ RagContext
    \/ RagPlain
    \/ RagAugmented

SpecQuery == InitQuery /\ [][NextQuery]_vars

(***************************************************************************)
(* save_index and load_index on the file system                            *)
(***************************************************************************)
EMBEDDING_MODEL == "nomic-embed-text"

\* a chunk of an Index as the dict index_documents builds: text is missing
\* when it was popped
ChunkAsJson(c) ==
    JObj((IF c.text = None THEN <<>> ELSE <<Item("text", JStr(ValueOf(c.text)))>>)
         \o <<Item("start", JNum(c.start)),
              Item("end", JNum(c.end)),
              Item("chunk_index", JNum(c.chunk_index)),
              Item("source_file", JStr(c.source_file)),
              Item("source_name", JStr(c.source_name)),
              Item("embedding",
                   JArr([i \in 1..Len(c.embedding) |-> JNum(c.embedding[i])]))>>)

\* the Index of index_documents as the dict handed to json.dump
AsJson(index) ==
    JObj(<<Item("chunks",
                JArr([i \in 1..Len(index.chunks) |-> ChunkAsJson(index.chunks[i])])),
           Item("metadata",
                JObj(<<Item("source_name", JStr(index.metadata.source_name)),
                       Item("source_files",
                            JArr([i \in 1..Len(index.metadata.source_files) |->
                                     JStr(index.metadata.source_files[i])])),
                       Item("total_chunks", JNum(index.metadata.total_chunks)),
                       Item("chunk_size", JNum(index.metadata.chunk_size)),
                       Item("chunk_overlap", JNum(index.metadata.chunk_overlap)),
                       Item("embedding_model", JStr(EMBEDDING_MODEL)),
                       Item("embedding_dim", JNum(index.metadata.embedding_dim))>>))>>)

\* a list of numbers of a document as a vector
VectorOf(j) == [i \in 1..Len(j.v) |-> j.v[i].v]

\* a chunk of a loaded document as search_index and rag.py look at it
ChunkOfJson(j) ==
    [text |-> IF JGet(j, "text") = None
              THEN None
              ELSE Some(ValueOf(JGet(j, "text")).v),
     embedding |-> IF JGet(j, "embedding") = None
                   THEN None
                   ELSE Some(VectorOf(ValueOf(JGet(j, "embedding")))),
     source_file |-> IF JGet(j, "source_file") = None
                     THEN 0
                     ELSE ValueOf(JGet(j, "source_file")).v]

\* index['chunks'] of a loaded document
ChunksOf(doc) ==
    IF JGet(doc, "chunks") = None \/ ValueOf(JGet(doc, "chunks")).t # "arr"
    THEN <<>>
    ELSE [i \in 1..Len(ValueOf(JGet(doc, "chunks")).v) |->
             ChunkOfJson(ValueOf(JGet(doc, "chunks")).v[i])]

\* what load_index meets at a path: no file, a file open() raises on, a text
\* json.load raises on, the document null, or a document
FileStateOf(file) ==
    IF file = None
    THEN AbsentFile
    ELSE IF ~ValueOf(file).readable
    THEN [kind |-> "unreadable", chunks |-> <<>>]
    ELSE IF json_load(ValueOf(file).content) = None
    THEN [kind |-> "malformed", chunks |-> <<>>]
    ELSE LET doc == ValueOf(json_load(ValueOf(file).content))
         IN  IF doc = JNull
             THEN [kind |-> "null", chunks |-> <<>>]
             ELSE [kind |-> IF JGet(doc, "chunks") = None THEN "no_chunks" ELSE "index",
                   chunks |-> ChunksOf(doc), doc |-> doc]

\* the file system as load_index sees it
FsOf(d) == [p \in Paths |-> FileStateOf(d.files[p])]

\* mode 'a': the text is put after what the file held
WrittenAppended(old, text) == old \o text

\* open(file_path, 'w') truncates the file, json.dump writes the text
Written(old, text) == text

\* what a file held, empty when there was none
ContentOf(file) == IF file = None THEN <<>> ELSE ValueOf(file).content

\* save_index(index, file_path): ensure_index_dir, then the file is opened
\* for writing and the document dumped; open raises when the directory of
\* the path is missing or the file may not be written, and the exception is
\* raised again
save_index(d, index, file_path) ==
    LET made == ensure_index_dir(d)
    IN  IF DirOf(file_path) \notin made.dirs
        THEN [raised |-> TRUE, disk |-> made]
        ELSE IF made.files[file_path] # None /\ ~ValueOf(made.files[file_path]).readable
        THEN [raised |-> TRUE, disk |-> made]
        ELSE [raised |-> FALSE,
              disk |-> [made EXCEPT !.files[file_path] =
                           Some(File(Written(ContentOf(made.files[file_path]),
                                             Dump(index))))]]

\* the embedding of every chunk succeeds
AllEmbedded == [i \in 1..4 |-> Some(<<1, 0>>)]

\* the embedding of the second chunk fails
SecondFails == [i \in 1..4 |-> IF i = 2 THEN None ELSE Some(<<1, 0>>)]

OneFile == <<[readable |-> TRUE, text |-> <<"a", "a">>]>>

TwoFiles == <<[readable |-> TRUE, text |-> <<"a">>], [readable |-> TRUE, text |-> <<"a", "a">>]>>

\* the Index of a call of index_documents with chunk_size 1 and overlap 0
BuiltIndex(file_paths, store_text, oracle) ==
    AsJson(ValueOf(IndexRun(IndexCall(file_paths, Some(1), Some(0), store_text,
                                      TRUE, 1, TRUE), oracle).index))

\* the Indexes handed to save_index
StoreIndexes ==
    {BuiltIndex(OneFile, TRUE, AllEmbedded), BuiltIndex(TwoFiles, TRUE, SecondFails),
     BuiltIndex(OneFile, FALSE, AllEmbedded)}

\* the texts a file holds before any save: an index, a text cut in its
\* middle, the document null, and an object without chunks
StoredTexts ==
    {Dump(OldIndex), SubSeq(Dump(OldIndex), 1, 4), <<JNull>>, Dump(JObj(<<>>))}

StoredFiles ==
    {None} \cup {Some(File(t)) : t \in StoredTexts}
        \cup {Some(LockedFile(Dump(OldIndex)))}

\* the file systems of the start: a file lies in a directory that exists
StoreDisks ==
    {[dirs |-> ds, files |-> fs] :
        ds \in SUBSET {INDEX_DIR, CustomDir}, fs \in [Paths -> StoredFiles]}

\* nothing called yet; saved[p] is the Index of the last save_index at p that
\* returned, replaced[p] that this save came after another one
StoreStart ==
    [pc |-> "start", path |-> None, raised |-> FALSE, result |-> None,
     saved |-> [p \in Paths |-> None], replaced |-> [p \in Paths |-> FALSE]]

InitStore ==
    /\ split = SplitIdle
    /\ idx = IdxIdle
    /\ rag = RagIdle
    /\ script = ScriptIdle
    /\ fn = FnIdle
    /\ disk \in {d \in StoreDisks : \A p \in Paths : d.files[p] # None => DirOf(p) \in d.dirs}
    /\ store = StoreStart

\* a call of save_index
StoreSave ==
    /\ \E index \in StoreIndexes, p \in Paths :
          LET r == save_index(disk, index, p)
          IN  /\ disk' = r.disk
              /\ store' = [store EXCEPT
                     !.pc = "saved", !.path = Some(p), !.raised = r.raised,
                     !.result = None,
                     !.saved[p] = IF r.raised THEN @ ELSE Some(index),
                     !.replaced[p] = IF r.raised THEN @ ELSE store.saved[p] # None]
    /\ UNCHANGED <<split, idx, rag, script, fn>>

\* a call of load_index, with a path or with None
StoreLoad ==
    /\ \E path \in {None} \cup {Some(p) : p \in Paths} :
          store' = [store EXCEPT !.pc = "loaded", !.path = path, !.raised = FALSE,
                                 !.result = load_index(FsOf(disk), path)]
    /\ UNCHANGED <<split, idx, rag, disk, script, fn>>

NextStore == StoreSave \/ StoreLoad

SpecStore == InitStore /\ [][NextStore]_vars

(***************************************************************************)
(* cosine_similarity in the arithmetic of Python: the sums of products of  *)
(* integers are exact, math.sqrt, * and / of floats round to the nearest   *)
(* IEEE 754 double (ties to even).  A natural number of any size is the    *)
(* sequence of its digits in base 2^15, lowest first, without leading      *)
(* zeros; a double is sign * m * 2^e with m of exactly 53 bits.            *)
(***************************************************************************)
DigitBits == 15

Base == 32768

MantissaBits == 53

Pow2(k) == 2 ^ k

RECURSIVE BigTrim(_)
BigTrim(x) ==
    IF x = <<>>
    THEN x
    ELSE IF x[Len(x)] = 0 THEN BigTrim(SubSeq(x, 1, Len(x) - 1)) ELSE x

RECURSIVE BigOf(_)
\* the digits of a natural number
BigOf(n) == IF n = 0 THEN <<>> ELSE <<n % Base>> \o BigOf(n \div Base)

Digit(x, i) == IF i <= Len(x) THEN x[i] ELSE 0

RECURSIVE BigAddFrom(_, _, _, _)
BigAddFrom(x, y, i, carry) ==
    IF i > Len(x) /\ i > Len(y)
    THEN (IF carry = 0 THEN <<>> ELSE <<carry>>)
    ELSE <<(Digit(x, i) + Digit(y, i) + carry) % Base>>
             \o BigAddFrom(x, y, i + 1, (Digit(x, i) + Digit(y, i) + carry) \div Base)

BigAdd(x, y) == BigAddFrom(x, y, 1, 0)

RECURSIVE BigSubFrom(_, _, _, _)
BigSubFrom(x, y, i, borrow) ==
    IF i > Len(x)
    THEN <<>>
    ELSE IF Digit(x, i) - Digit(y, i) - borrow < 0
    THEN <<Digit(x, i) - Digit(y, i) - borrow + Base>> \o BigSubFrom(x, y, i + 1, 1)
    ELSE <<Digit(x, i) - Digit(y, i) - borrow>> \o BigSubFrom(x, y, i + 1, 0)

\* x - y for x >= y
BigSub(x, y) == BigTrim(BigSubFrom(x, y, 1, 0))

RECURSIVE BigLessFrom(_, _, _)
BigLessFrom(x, y, i) ==
    IF i = 0
    THEN FALSE
    ELSE IF x[i] # y[i] THEN x[i] < y[i] ELSE BigLessFrom(x, y, i - 1)

\* x < y
BigLess(x, y) ==
    IF Len(x) # Len(y) THEN Len(x) < Len(y) ELSE BigLessFrom(x, y, Len(x))

RECURSIVE BigMulDigit(_, _, _, _)
BigMulDigit(x, d, i, carry) ==
    IF i > Len(x)
    THEN (IF carry = 0 THEN <<>> ELSE <<carry>>)
    ELSE <<(x[i] * d + carry) % Base>>
             \o BigMulDigit(x, d, i + 1, (x[i] * d + carry) \div Base)

RECURSIVE BigMulFrom(_, _, _)
BigMulFrom(x, y, j) ==
    IF j > Len(y)
    THEN <<>>
    ELSE BigAdd(BigMulDigit(x, y[j], 1, 0), <<0>> \o BigMulFrom(x, y, j + 1))

\* x * y
BigMul(x, y) == BigTrim(BigMulFrom(x, y, 1))

BigBitsOfDigit(d) == CHOOSE k \in 1..DigitBits : Pow2(k - 1) <= d /\ d < Pow2(k)

\* the number of bits of x
BigBits(x) ==
    IF x = <<>> THEN 0 ELSE DigitBits * (Len(x) - 1) + BigBitsOfDigit(x[Len(x)])

\* 2^b
BigPow2(b) ==
    [i \in 1..(b \div DigitBits + 1) |->
        IF i = b \div DigitBits + 1 THEN Pow2(b % DigitBits) ELSE 0]

\* x * 2^b
BigShl(x, b) ==
    IF x = <<>>
    THEN x
    ELSE [i \in 1..(b \div DigitBits) |-> 0] \o BigMulDigit(x, Pow2(b % DigitBits), 1, 0)

\* x \div 2^b
BigShr(x, b) ==
    IF Len(x) <= b \div DigitBits
    THEN <<>>
    ELSE BigTrim([i \in 1..(Len(x) - b \div DigitBits) |->
                    (x[i + b \div DigitBits] \div Pow2(b % DigitBits))
                        + (Digit(x, i + b \div DigitBits + 1) % Pow2(b % DigitBits))
                              * Pow2(DigitBits - (b % DigitBits))])

BigOdd(x) == x # <<>> /\ x[1] % 2 = 1

FloatZero == [sign |-> 0, m |-> <<>>, e |-> 0]

\* the double nearest to sign * v for m * 2^e <= v < (m + 1) * 2^e, where
\* v = m * 2^e unless sticky; m has more than 53 bits when sticky
RoundToDouble(sign, m, e, sticky) ==
    IF BigBits(m) <= MantissaBits
    THEN [sign |-> sign, m |-> BigShl(m, MantissaBits - BigBits(m)),
          e |-> e - (MantissaBits - BigBits(m))]
    ELSE LET s == BigBits(m) - MantissaBits
             q == BigShr(m, s)
             rem == BigSub(m, BigShl(q, s))
             half == BigPow2(s - 1)
             up == BigLess(half, rem) \/ (rem = half /\ (sticky \/ BigOdd(q)))
             r == IF up THEN BigAdd(q, <<1>>) ELSE q
         IN  IF BigBits(r) > MantissaBits
             THEN [sign |-> sign, m |-> BigShr(r, 1), e |-> e + s + 1]
             ELSE [sign |-> sign, m |-> r, e |-> e + s]

\* one bit of a square root: st.num is what is left of the number, st.res
\* the root so far, 2^st.b the power of four at hand
SqrtStep(st) ==
    IF BigLess(st.num, BigAdd(st.res, BigPow2(st.b)))
    THEN [num |-> st.num, res |-> BigShr(st.res, 1), b |-> st.b - 2]
    ELSE [num |-> BigSub(st.num, BigAdd(st.res, BigPow2(st.b))),
          res |-> BigAdd(BigShr(st.res, 1), BigPow2(st.b)),
          b |-> st.b - 2]

RECURSIVE SqrtIter(_, _)
\* n steps of the square root; once nothing is left of the number the
\* remaining steps only halve the root
SqrtIter(st, n) ==
    IF n = 0
    THEN st
    ELSE IF n = 1
    THEN SqrtStep(st)
    ELSE LET mid == SqrtIter(st, n \div 2)
         IN  IF mid.num = <<>>
             THEN [num |-> <<>>, res |-> BigShr(mid.res, n - n \div 2),
                   b |-> mid.b - 2 * (n - n \div 2)]
             ELSE SqrtIter(mid, n - n \div 2)

\* the largest r with r * r <= n, and what is left: n - r * r
ISqrt(n) ==
    LET top == 2 * ((BigBits(n) - 1) \div 2)
    IN  SqrtIter([num |-> n, res |-> <<>>, b |-> top], top \div 2 + 1)

\* the bits kept below the binary point of a square root, and of a quotient
SqrtShift == 56

DivShift == 108

\* math.sqrt(n) for a natural number n
FloatSqrt(n) ==
    IF n = 0
    THEN FloatZero
    ELSE LET root == ISqrt(BigShl(BigOf(n), 2 * SqrtShift))
         IN  RoundToDouble(1, root.res, 0 - SqrtShift, root.num # <<>>)

\* the components and the lengths of the vectors of cosine_similarity
MaxComponent == 1
MaxVecLen == 3

\* the lists of integers of the bounds
IntVectors ==
    UNION {[1..n -> (0 - MaxComponent)..MaxComponent] : n \in 0..MaxVecLen}

MaxSquare == MaxVecLen * MaxComponent * MaxComponent

RECURSIVE SqrtUpTo(_)
SqrtUpTo(n) == IF n = 0 THEN <<>> ELSE Append(SqrtUpTo(n - 1), FloatSqrt(n))

\* math.sqrt on the sums of squares the vectors of the bounds have
SqrtTable == SqrtUpTo(MaxSquare)

MathSqrt(n) == IF n = 0 THEN FloatZero ELSE SqrtTable[n]

\* a * b
FloatMul(a, b) ==
    IF a.sign = 0 \/ b.sign = 0
    THEN FloatZero
    ELSE RoundToDouble(a.sign * b.sign, BigMul(a.m, b.m), a.e + b.e, FALSE)

\* one bit of a long division by d: st.q the quotient so far, st.rem the
\* remainder so far, less than d
DivStep(st, d) ==
    IF BigLess(BigAdd(st.rem, st.rem), d)
    THEN [q |-> BigAdd(st.q, st.q), rem |-> BigAdd(st.rem, st.rem)]
    ELSE [q |-> BigAdd(BigAdd(st.q, st.q), <<1>>),
          rem |-> BigSub(BigAdd(st.rem, st.rem), d)]

RECURSIVE DivIter(_, _, _)
\* n steps of the long division; once the remainder is 0 the remaining
\* steps only double the quotient
DivIter(st, d, n) ==
    IF n = 0
    THEN st
    ELSE IF n = 1
    THEN DivStep(st, d)
    ELSE LET mid == DivIter(st, d, n \div 2)
         IN  IF mid.rem = <<>>
             THEN [q |-> BigShl(mid.q, n - n \div 2), rem |-> <<>>]
             ELSE DivIter(mid, d, n - n \div 2)

Abs(n) == IF n < 0 THEN 0 - n ELSE n

Sign(n) == IF n < 0 THEN 0 - 1 ELSE IF n = 0 THEN 0 ELSE 1

\* n / d for an integer n and a float d that is not 0
FloatDivInt(n, d) ==
    IF n = 0
    THEN FloatZero
    ELSE LET qr == DivIter([q |-> <<>>, rem |-> BigOf(Abs(n))], d.m, DivShift)
         IN  RoundToDouble(Sign(n) * d.sign, qr.q, 0 - DivShift - d.e,
                           qr.rem # <<>>)

\* cosine_similarity(vec1, vec2) on lists of integers
FloatCosine(vec1, vec2) ==
    IF Len(vec1) # Len(vec2)
    THEN [raised |-> TRUE, value |-> FloatZero]
    ELSE LET dot_product == Dot(vec1, vec2, 1)
             magnitude1 == MathSqrt(Dot(vec1, vec1, 1))
             magnitude2 == MathSqrt(Dot(vec2, vec2, 1))
         IN  IF magnitude1.sign = 0 \/ magnitude2.sign = 0
             THEN [raised |-> FALSE, value |-> FloatZero]
             ELSE [raised |-> FALSE,
                   value |-> FloatDivInt(dot_product,
                                         FloatMul(magnitude1, magnitude2))]

\* -1.0 <= f <= 1.0
InUnitRange(f) ==
    \/ f.sign = 0
    \/ f.e < 1 - MantissaBits
    \/ f.e = 1 - MantissaBits /\ f.m = BigPow2(MantissaBits - 1)

(***************************************************************************)
(* Single calls of search_index, cosine_similarity and                     *)
(* filter_by_relevance_threshold: fn holds the arguments of the call and,  *)
(* once it has returned, its result.                                       *)
(***************************************************************************)
MaxSearchChunks == 3
MaxSearchTopK == 4
MaxFilterLen == 3

\* the chunks of ChunkPool, a chunk without embedding and a chunk whose
\* embedding is the zero vector
SearchPool ==
    ChunkPool
        \cup { [text |-> Some(<<"b">>), embedding |-> None, source_file |-> 1],
               [text |-> Some(<<"a", "b">>), embedding |-> Some(<<0, 0>>), source_file |-> 2] }

SearchLists == UNION {[1..n -> SearchPool] : n \in 0..MaxSearchChunks}

SearchIndexes ==
    {None, Some([kind |-> "no_chunks", chunks |-> <<>>])}
        \cup {Some([kind |-> "index", chunks |-> c]) : c \in SearchLists}

\* what get_embedding(query) gives: None, or the vector of the query
QueryEmbeddings == {None, Some(<<1, 0>>), Some(<<3, 4>>)}

OtherCallsIdle ==
    /\ split = SplitIdle
    /\ idx = IdxIdle
    /\ rag = RagIdle
    /\ disk = NoDisk
    /\ store = StoreIdle
    /\ script = ScriptIdle

InitSearch ==
    /\ OtherCallsIdle
    /\ fn \in {[pc |-> "call", name |-> "search_index", query_embedding |-> q,
                index |-> i, top_k |-> k] :
                  q \in QueryEmbeddings, i \in SearchIndexes, k \in 0..MaxSearchTopK}

\* search_index runs to its return or to the exception of cosine_similarity
FnSearch ==
    /\ fn.pc = "call"
    /\ fn.name = "search_index"
    /\ fn' = [pc |-> "done", name |-> fn.name,
              query_embedding |-> fn.query_embedding, index |-> fn.index,
              top_k |-> fn.top_k,
              result |-> search_index(fn.query_embedding, fn.index, fn.top_k)]
    /\ UNCHANGED <<split, idx, rag, disk, store, script>>

NextSearch == FnSearch

SpecSearch == InitSearch /\ [][NextSearch]_vars

InitCosine ==
    /\ OtherCallsIdle
    /\ fn \in {[pc |-> "call", name |-> "cosine_similarity", vec1 |-> a, vec2 |-> b] :
                  a \in IntVectors, b \in IntVectors}

\* cosine_similarity runs to its return or to its ValueError
FnCosine ==
    /\ fn.pc = "call"
    /\ fn.name = "cosine_similarity"
    /\ fn' = [pc |-> "done", name |-> fn.name, vec1 |-> fn.vec1, vec2 |-> fn.vec2,
              result |-> FloatCosine(fn.vec1, fn.vec2)]
    /\ UNCHANGED <<split, idx, rag, disk, store, script>>

NextCosine == FnCosine

SpecCosine == InitCosine /\ [][NextCosine]_vars

FilterSimilarities == {0 - Scale, 0, 50, Scale}

\* search results: a chunk and its similarity; the rank is the position
FilterPool ==
    {[chunk |-> c, similarity |-> s, rank |-> 0] :
        c \in {[text |-> Some(<<"a">>), embedding |-> Some(<<1, 0>>), source_file |-> 1],
               [text |-> None, embedding |-> Some(<<0, 1>>), source_file |-> 2]},
        s \in FilterSimilarities}

FilterLists ==
    {Renumber(l) : l \in UNION {[1..n -> FilterPool] : n \in 0..MaxFilterLen}}

\* a threshold that is not set, below and at -1.0, and between and at the
\* similarities of the results
FilterThresholds == {None} \cup {Some(t) : t \in {0 - Scale - 1, 0 - Scale, 1 - Scale, 0, 50, 51, Scale, Scale + 1}}

InitFilter ==
    /\ OtherCallsIdle
    /\ fn \in {[pc |-> "call", name |-> "filter_by_relevance_threshold",
                results |-> r, threshold |-> t] :
                  r \in FilterLists, t \in FilterThresholds}

\* filter_by_relevance_threshold returns; results is the list the caller
\* passed, as it is after the call
FnFilter ==
    /\ fn.pc = "call"
    /\ fn.name = "filter_by_relevance_threshold"
    /\ fn' = [pc |-> "done", name |-> fn.name, results |-> fn.results,
              threshold |-> fn.threshold,
              output |-> filter_by_relevance_threshold(fn.results, fn.threshold)]
    /\ UNCHANGED <<split, idx, rag, disk, store, script>>

NextFilter == FnFilter

SpecFilter == InitFilter /\ [][NextFilter]_vars

(***************************************************************************)
(* rerank_results called on a list of results, and once more on what it    *)
(* returned                                                                *)
(***************************************************************************)
MaxRerankLen == 3

\* chunks whose texts are equal, equal after normalization, different,
\* missing, and white space only
RerankChunks ==
    { [text |-> Some(<<"a">>), embedding |-> Some(<<1, 0>>), source_file |-> 1],
      [text |-> Some(<<"A", " ">>), embedding |-> Some(<<3, 4>>), source_file |-> 2],
      [text |-> Some(<<"b">>), embedding |-> Some(<<0, 1>>), source_file |-> 1],
      [text |-> None, embedding |-> Some(<<1, 0>>), source_file |-> 2],
      [text |-> Some(<<" ">>), embedding |-> Some(<<0, 1>>), source_file |-> 2] }

\* results as search_index appends them: the rank is still 0
RerankPool ==
    {[chunk |-> c, similarity |-> s, rank |-> 0] : c \in RerankChunks, s \in {50, Scale}}

RerankLists == UNION {[1..n -> RerankPool] : n \in 0..MaxRerankLen}

\* the three methods, and names that are none of them
MethodNames == {"similarity", "diversity", "hybrid", "Diversity", "other", ""}

InitRerank ==
    /\ OtherCallsIdle
    /\ fn \in {[pc |-> "call", name |-> "rerank_results", results |-> r, method |-> m] :
                  r \in RerankLists, m \in MethodNames}

\* rerank_results returns
FnRerank ==
    /\ fn.pc = "call"
    /\ fn.name = "rerank_results"
    /\ fn' = [pc |-> "done", name |-> fn.name, results |-> fn.results,
              method |-> fn.method,
              output |-> rerank_results(fn.results, fn.method)]
    /\ UNCHANGED <<split, idx, rag, disk, store, script>>

\* rerank_results called with the same method on what it returned
FnRerankAgain ==
    /\ fn.pc = "done"
    /\ fn.name = "rerank_results"
    /\ fn' = [pc |-> "twice", name |-> fn.name, results |-> fn.results,
              method |-> fn.method, output |-> fn.output,
              again |-> rerank_results(fn.output, fn.method)]
    /\ UNCHANGED <<split, idx, rag, disk, store, script>>

NextRerank == FnRerank \/ FnRerankAgain

SpecRerank == InitRerank /\ [][NextRerank]_vars

(***************************************************************************)
(* get_embedding and get_embeddings_batch (document_indexer.py 145-301),   *)
(* one text of the batch per step.  The embedding service answers each     *)
(* request with a transport error or with a status and a body.             *)
(***************************************************************************)
MaxBatchTexts == 2

\* lines 160-162: the longest prompt sent
PromptCap == 8192

EmbedTexts == {<<>>, <<"a">>, <<"b">>}

BatchTexts == UNION {[1..n -> EmbedTexts] : n \in 0..MaxBatchTexts}

\* the bodies of a response: not JSON, an object without "embedding", an
\* object whose "embedding" is a number, an object with a vector
Bodies == {"invalid", "no_field", "scalar_field", "vector"}

Statuses == {200, 300, 500}

\* what requests.post gives: it raises ConnectionError or Timeout, or it
\* returns a response
ServiceAnswers ==
    {[error |-> e, status |-> 0, body |-> "invalid"] : e \in {"ConnectionError", "Timeout"}}
        \cup {[error |-> "none", status |-> st, body |-> b] : st \in Statuses, b \in Bodies}

\* line 181: response.raise_for_status() raises HTTPError for the client and
\* server error statuses
RaiseForStatus(status) == 400 <= status /\ status < 600

\* lines 145-207: the text, the answer of the service to the request if one
\* is sent; posted is the prompt sent (None without a request), value the
\* result.  Every exception of the request, of response.json() and of
\* len(embedding) ends in an except clause that returns None.
get_embedding(text, answer) ==
    IF Len(text) = 0
    THEN [posted |-> None, value |-> None]
    ELSE LET prompt == IF Len(text) > PromptCap THEN SubSeq(text, 1, PromptCap) ELSE text
             value == IF answer.error # "none" THEN None
                      ELSE IF RaiseForStatus(answer.status) THEN None
                      ELSE IF answer.body = "vector" THEN Some(<<1, 0>>)
                      ELSE None
         IN  [posted |-> Some(prompt), value |-> value]

InitBatch ==
    /\ OtherCallsIdle
    /\ fn \in {[pc |-> "loop", name |-> "get_embeddings_batch", texts |-> t,
                batch_size |-> b, i |-> 1, embeddings |-> <<>>, answers |-> <<>>,
                posted |-> <<>>] : t \in BatchTexts, b \in {1, 10}}

\* lines 286-297: one iteration of the loop; i % batch_size (line 288) raises
\* ZeroDivisionError for batch_size = 0
FnBatchItem ==
    /\ fn.pc = "loop"
    /\ fn.name = "get_embeddings_batch"
    /\ fn.i <= Len(fn.texts)
    /\ \E answer \in ServiceAnswers :
           LET r == get_embedding(fn.texts[fn.i], answer)
           IN  fn' = IF fn.batch_size = 0
                     THEN [fn EXCEPT !.pc = "raised"]
                     ELSE [fn EXCEPT !.i = fn.i + 1,
                                     !.embeddings = Append(fn.embeddings, r.value),
                                     !.answers = Append(fn.answers,
                                                   IF r.posted = None THEN None ELSE Some(answer)),
                                     !.posted = IF r.posted = None THEN fn.posted
                                                ELSE Append(fn.posted, ValueOf(r.posted))]
    /\ UNCHANGED <<split, idx, rag, disk, store, script>>

\* lines 299-301: the loop is over, the list is returned
FnBatchReturn ==
    /\ fn.pc = "loop"
    /\ fn.name = "get_embeddings_batch"
    /\ fn.i > Len(fn.texts)
    /\ fn' = [fn EXCEPT !.pc = "done"]
    /\ UNCHANGED <<split, idx, rag, disk, store, script>>

NextBatch == FnBatchItem \/ FnBatchReturn

SpecBatch == InitBatch /\ [][NextBatch]_vars

(***************************************************************************)
(* Several queries over one loaded index.  The index is one object that    *)
(* every query reads; a search result holds a reference to a chunk of the  *)
(* index (document_indexer.py 586: 'chunk': chunk), here the position of   *)
(* the chunk, and the result dicts themselves belong to the query that     *)
(* made them.  Each stage is an operator from the index and the query to   *)
(* the index and the results after it, one stage of one query per step.    *)
(***************************************************************************)
MaxSharedChunks == 2
MaxSharedTopK == 1
Queries == {1, 2}

SharedIndexes ==
    {[kind |-> "index", chunks |-> c] :
        c \in UNION {[1..n -> ChunkPool] : n \in 0..MaxSharedChunks}}

\* the chunks of the index with their positions
Tagged(index) ==
    [index EXCEPT !.chunks = [j \in 1..Len(index.chunks) |->
        [ref |-> j, text |-> index.chunks[j].text,
         embedding |-> index.chunks[j].embedding,
         source_file |-> index.chunks[j].source_file]]]

\* the results with the chunks they refer to, as they are read now
Deref(index, results) ==
    [k \in 1..Len(results) |->
        [chunk |-> Tagged(index).chunks[results[k].ref],
         similarity |-> results[k].similarity, rank |-> results[k].rank]]

\* the result dicts: a reference to the chunk, similarity, rank
Refs(results) ==
    [k \in 1..Len(results) |->
        [ref |-> results[k].chunk.ref,
         similarity |-> results[k].similarity, rank |-> results[k].rank]]

\* document_indexer.py 576-599: new result dicts, nothing of the index is
\* assigned to
SharedSearch(index, q) ==
    [index |-> index,
     results |-> Refs(search_index(q.query_embedding, Some(Tagged(index)), q.top_k).results)]

\* rag.py 31-42: a new list of the same result dicts
SharedFilter(index, q) ==
    [index |-> index,
     results |-> Refs(filter_by_relevance_threshold(Deref(index, q.results), q.threshold))]

\* a rerank that stores the normalized text in the chunk it looked at
SharedRerankInPlace(index, q) ==
    [index |-> [index EXCEPT !.chunks = [j \in 1..Len(index.chunks) |->
                    IF \E k \in 1..Len(q.results) : q.results[k].ref = j
                    THEN [index.chunks[j] EXCEPT !.text = Some(Normalized(index.chunks[j]))]
                    ELSE index.chunks[j]]],
     results |-> Refs(rerank_results(Deref(index, q.results), q.method))]

\* rag.py 63-111: the only assignments are result['rank'] = i, on the result
\* dicts of the query
SharedRerank(index, q) ==
    [index |-> index,
     results |-> Refs(rerank_results(Deref(index, q.results), q.method))]

\* rag.py 151-175: the context is built from what the chunks hold now
SharedContext(index, q) ==
    [index |-> index, context |-> format_chunks_for_context(Deref(index, q.results))]

SharedQuery(top_k, threshold, method) ==
    [pc |-> "search", query_embedding |-> Some(<<1, 0>>), top_k |-> top_k,
     threshold |-> threshold, method |-> method, results |-> <<>>, context |-> <<>>]

SharedQueries ==
    {SharedQuery(k, t, m) : k \in 1..MaxSharedTopK, t \in {None, Some(50)},
                            m \in {"diversity", "hybrid"}}

\* loaded is the index as load_index returned it, index the object now;
\* overlapped tells that a stage ran while the other query was under way
InitShared ==
    /\ OtherCallsIdle
    /\ fn \in {[pc |-> "run", name |-> "queries", loaded |-> i, index |-> i,
                q |-> qs, overlapped |-> FALSE] :
                  i \in SharedIndexes, qs \in [Queries -> SharedQueries]}

UnderWay(q) == q.pc \in {"filter", "rerank", "context"}

\* one stage of query i has run: the index and the query after it
Staged(i, index, q) ==
    /\ fn' = [fn EXCEPT !.index = index, !.q[i] = q,
                        !.overlapped = @ \/ \E j \in Queries \ {i} : UnderWay(fn.q[j])]
    /\ UNCHANGED <<split, idx, rag, disk, store, script>>

ShareSearch ==
    /\ fn.name = "queries"
    /\ \E i \in Queries :
           /\ fn.q[i].pc = "search"
           /\ LET h == SharedSearch(fn.index, fn.q[i])
              IN  Staged(i, h.index, [fn.q[i] EXCEPT !.pc = "filter", !.results = h.results])

ShareFilter ==
    /\ fn.name = "queries"
    /\ \E i \in Queries :
           /\ fn.q[i].pc = "filter"
           /\ LET h == SharedFilter(fn.index, fn.q[i])
              IN  Staged(i, h.index, [fn.q[i] EXCEPT !.pc = "rerank", !.results = h.results])

ShareRerank ==
    /\ fn.name = "queries"
    /\ \E i \in Queries :
           /\ fn.q[i].pc = "rerank"
           /\ LET h == SharedRerank(fn.index, fn.q[i])
              IN  Staged(i, h.index, [fn.q[i] EXCEPT !.pc = "context", !.results = h.results])

ShareContext ==
    /\ fn.name = "queries"
    /\ \E i \in Queries :
           /\ fn.q[i].pc = "context"
           /\ LET h == SharedContext(fn.index, fn.q[i])
              IN  Staged(i, h.index, [fn.q[i] EXCEPT !.pc = "done", !.context = h.context])

NextShared == ShareSearch \/ ShareFilter \/ ShareRerank \/ ShareContext

SpecShared == InitShared /\ [][NextShared]_vars

(***************************************************************************)
(* analyze_review_for_critical_issues (review_pr.py 224-288).  A review    *)
(* text is a sequence of lexemes, each standing for one string:            *)
(*   "k" критические  "K" Критические  "p" проблемы  "n" критичный         *)
(*   "b" bug  "z" замечания  "x" x  "W" the warning sign with its          *)
(*   variation selector  "X" the cross mark  "$" "#" "-" "*" " " "\n"      *)
(*   themselves.                                                           *)
(* The words are made of word characters, so two adjacent words have no    *)
(* word boundary between them.                                             *)
(***************************************************************************)
MaxPieces == 2

HeaderLower == <<"#", "#", " ", "W", " ", "k", " ", "p">>

HeaderUpper == <<"#", "#", " ", "W", " ", "K", " ", "p">>

NextSection == <<"\n", "#", "#", " ">>

Pieces ==
    {HeaderLower, HeaderUpper, NextSection, <<"W">>, <<"k", " ", "p">>, <<"b">>,
     <<"z">>, <<"\n", "-", " ", "x">>, <<"*", " ">>, <<"x">>, <<" ">>, <<"X">>,
     <<"n">>, <<"$">>, <<"K">>, <<"p">>}

RECURSIVE Concat(_)
Concat(pieces) ==
    IF pieces = <<>> THEN <<>> ELSE Head(pieces) \o Concat(Tail(pieces))

ReviewTexts == {Concat(ps) : ps \in UNION {[1..n -> Pieces] : n \in 0..MaxPieces}}

\* the values handed in: None, an object that is no str, a str
ReviewInputs ==
    {[kind |-> k, text |-> <<>>] : k \in {"None", "object"}}
        \cup {[kind |-> "str", text |-> t] : t \in ReviewTexts}

IsWord(c) == c \in {"k", "K", "p", "n", "b", "z", "x"}

IsBlank(c) == c \in {" ", "\n"}

\* the lexeme at position i, "" outside the text
At(t, i) == IF 1 <= i /\ i <= Len(t) THEN t[i] ELSE ""

\* \b in front of the word at position i
StartsWord(t, i) == ~IsWord(At(t, i - 1))

RECURSIVE WordEnd(_, _)
\* \w*: the last position of the run of word characters that holds i
WordEnd(t, i) == IF IsWord(At(t, i + 1)) THEN WordEnd(t, i + 1) ELSE i

RECURSIVE BlankEnd(_, _)
\* \s*: the last position of the white space from i on, i - 1 if none
BlankEnd(t, i) == IF IsBlank(At(t, i)) THEN BlankEnd(t, i + 1) ELSE i - 1

\* lines 30-44: the alternatives of _CRITICAL_REGEX tried at position i in
\* their order; last is where the match ends, 0 without a match.  The
\* groups must_fix ... crash are bounded words like bug.
CriticalMatch(t, i) ==
    LET w == WordEnd(t, i)
        s == BlankEnd(t, w + 1)
        e == BlankEnd(t, i + 1)
    IN  IF At(t, i) \in {"k", "K"} /\ StartsWord(t, i) /\ s > w /\ At(t, s + 1) = "p"
        THEN [lastgroup |-> "critical_phrase", last |-> WordEnd(t, s + 1)]
        ELSE IF At(t, i) = "n" /\ StartsWord(t, i)
        THEN [lastgroup |-> "critical_word", last |-> w]
        ELSE IF At(t, i) = "W" /\ At(t, e + 1) \in {"k", "K"}
        THEN [lastgroup |-> "critical_emoji", last |-> WordEnd(t, e + 1)]
        ELSE IF At(t, i) = "b" /\ StartsWord(t, i) /\ ~IsWord(At(t, i + 1))
        THEN [lastgroup |-> "bug", last |-> i]
        ELSE [lastgroup |-> "", last |-> 0]

RECURSIVE MatchedCategories(_, _)
\* lines 254-255: the groups of the matches of finditer, which do not
\* overlap, from position i on
MatchedCategories(t, i) ==
    IF i > Len(t)
    THEN {}
    ELSE LET m == CriticalMatch(t, i)
         IN  IF m.last > 0
             THEN {m.lastgroup} \cup MatchedCategories(t, m.last + 1)
             ELSE MatchedCategories(t, i + 1)

\* lines 46-54: _ISSUE_REGEX.search(review_text) is not None
IssueFound(t) ==
    \E i \in 1..Len(t) :
        \/ At(t, i) \in {"p", "z"} /\ StartsWord(t, i)
        \/ At(t, i) \in {"W", "X"}

RECURSIVE Find(_, _, _)
\* str.find(sub, from): the first position >= from where sub stands, 0
\* (Python: -1) if there is none
Find(t, sub, from) ==
    IF from + Len(sub) - 1 > Len(t)
    THEN 0
    ELSE IF SubSeq(t, from, from + Len(sub) - 1) = sub
    THEN from
    ELSE Find(t, sub, from + 1)

\* str.count of a two character string that cannot overlap itself
CountPair(t, a, b) == Cardinality({i \in 1..Len(t) : At(t, i) = a /\ At(t, i + 1) = b})

\* the function without its guards for None and for values that are no str:
\* finditer raises TypeError on them
AnalyzeUnguarded(review_text) ==
    IF review_text.kind # "str"
    THEN [raised |-> TRUE, has_critical_issues |-> FALSE, has_issues |-> FALSE,
          critical_count |-> 0]
    ELSE LET t == review_text.text
             n == Cardinality(MatchedCategories(t, 1))
         IN  [raised |-> FALSE, has_critical_issues |-> n > 0,
              has_issues |-> n > 0 \/ IssueFound(t), critical_count |-> n]

\* lines 224-288
analyze_review_for_critical_issues(review_text) ==
    IF review_text.kind # "str" \/ review_text.text = <<>>
    THEN [raised |-> FALSE, has_critical_issues |-> FALSE, has_issues |-> FALSE,
          critical_count |-> 0]
    ELSE LET t == review_text.text
             matched == Cardinality(MatchedCategories(t, 1))
             has_issues == matched > 0 \/ IssueFound(t)
             lower == Find(t, HeaderLower, 1)
             start == IF lower > 0 THEN lower ELSE Find(t, HeaderUpper, 1)
             next_section == Find(t, NextSection, start + 1)
             critical_section == IF next_section > 0
                                 THEN SubSeq(t, start, next_section - 1)
                                 ELSE SubSeq(t, start, Len(t))
             items == CountPair(critical_section, "-", " ")
                          + CountPair(critical_section, "*", " ")
         IN  IF start > 0
             THEN [raised |-> FALSE, has_critical_issues |-> TRUE,
                   has_issues |-> has_issues,
                   critical_count |-> IF items = 0 THEN 1 ELSE items]
             ELSE [raised |-> FALSE, has_critical_issues |-> matched > 0,
                   has_issues |-> has_issues, critical_count |-> matched]

InitAnalyze ==
    /\ OtherCallsIdle
    /\ fn \in {[pc |-> "call", name |-> "analyze_review_for_critical_issues",
                review_text |-> r] : r \in ReviewInputs}

\* the call returns its dict, or raises
FnAnalyze ==
    /\ fn.pc = "call"
    /\ fn.name = "analyze_review_for_critical_issues"
    /\ LET r == analyze_review_for_critical_issues(fn.review_text)
       IN  fn' = [pc |-> IF r.raised THEN "raised" ELSE "done", name |-> fn.name,
                  review_text |-> fn.review_text, result |-> r]
    /\ UNCHANGED <<split, idx, rag, disk, store, script>>

NextAnalyze == FnAnalyze

SpecAnalyze == InitAnalyze /\ [][NextAnalyze]_vars

(***************************************************************************)
(* save_index while load_index or query_with_rag reads the same path       *)
(* (document_indexer.py 510-548, rag.py 247-262).  The writer truncates    *)
(* the file when it opens it and json.dump puts the text there piece by    *)
(* piece, as the buffer of the file object is flushed; the reader tests    *)
(* that the file exists, opens it and reads until a read returns nothing.  *)
(* Each read returns what the file holds at that moment from the position  *)
(* of the reader on.                                                       *)
(***************************************************************************)
MaxLoads == 2

\* the Index the writer saves: one chunk with its text and embedding
NewIndex == BuiltIndex(<<[readable |-> TRUE, text |-> <<"a">>]>>, TRUE, AllEmbedded)

\* the file before the save: none, the index of an earlier run without
\* chunks, or one with two chunks
RaceFiles ==
    {None, Some(File(Dump(OldIndex))),
     Some(File(Dump(BuiltIndex(OneFile, TRUE, AllEmbedded))))}

\* lines 540-548: json.load on what was read; its exception is caught and
\* None returned
LoadFromTextUncaught(content) ==
    [raised |-> json_load(content) = None, result |-> json_load(content)]

LoadFromText(content) == [raised |-> FALSE, result |-> json_load(content)]

InitRace ==
    /\ split = SplitIdle
    /\ idx = IdxIdle
    /\ rag = RagIdle
    /\ script = ScriptIdle
    /\ \E f \in RaceFiles :
          /\ disk = [dirs |-> IF f = None THEN {} ELSE {INDEX_DIR},
                     files |-> [p \in Paths |-> IF p = INDEX_FILE THEN f ELSE None]]
          /\ store = [pc |-> "call", index |-> NewIndex, text |-> Dump(NewIndex),
                      written |-> 0, previous |-> f]
    /\ fn \in {[pc |-> "ready", name |-> "load_index", caller |-> c, loads |-> 0,
                found |-> FALSE, buffer |-> <<>>, raised |-> FALSE, result |-> None] :
                  c \in {"load_index", "query_with_rag"}}

\* line 516: ensure_index_dir()
SaveEnsure ==
    /\ store.pc = "call"
    /\ disk' = ensure_index_dir(disk)
    /\ store' = [store EXCEPT !.pc = "open"]
    /\ UNCHANGED <<split, idx, rag, script, fn>>

\* line 519: open(file_path, 'w') makes the file or empties it
SaveOpen ==
    /\ store.pc = "open"
    /\ disk' = [disk EXCEPT !.files[INDEX_FILE] = Some(File(<<>>))]
    /\ store' = [store EXCEPT !.pc = "dump"]
    /\ UNCHANGED <<split, idx, rag, script, fn>>

\* line 520: json.dump; a flush of the buffer puts the text up to some
\* point into the file
SaveFlush ==
    /\ store.pc = "dump"
    /\ store.written < Len(store.text)
    /\ \E n \in (store.written + 1)..Len(store.text) :
          /\ disk' = [disk EXCEPT !.files[INDEX_FILE] = Some(File(SubSeq(store.text, 1, n)))]
          /\ store' = [store EXCEPT !.written = n]
    /\ UNCHANGED <<split, idx, rag, script, fn>>

\* lines 519-521: the with block is left, the file closed, save_index returns
SaveClose ==
    /\ store.pc = "dump"
    /\ store.written = Len(store.text)
    /\ store' = [store EXCEPT !.pc = "saved"]
    /\ UNCHANGED <<split, idx, rag, disk, script, fn>>

\* a call of load_index begins; query_with_rag loads once
LoadCall ==
    /\ fn.name = "load_index"
    /\ fn.pc = "ready" \/ (fn.pc = "done" /\ fn.caller = "load_index")
    /\ fn.loads < MaxLoads
    /\ fn' = [fn EXCEPT !.pc = "exists", !.loads = @ + 1, !.found = FALSE,
                        !.buffer = <<>>, !.result = None]
    /\ UNCHANGED <<split, idx, rag, disk, store, script>>

\* lines 538-540: os.path.exists(file_path); None without the file
LoadExists ==
    /\ fn.name = "load_index"
    /\ fn.pc = "exists"
    /\ fn' = IF disk.files[INDEX_FILE] = None
             THEN [fn EXCEPT !.pc = "done"]
             ELSE [fn EXCEPT !.pc = "read", !.found = TRUE]
    /\ UNCHANGED <<split, idx, rag, disk, store, script>>

\* lines 542-543: open and the first read of json.load
LoadRead ==
    /\ fn.name = "load_index"
    /\ fn.pc = "read"
    /\ fn' = [fn EXCEPT !.pc = "more", !.buffer = ContentOf(disk.files[INDEX_FILE])]
    /\ UNCHANGED <<split, idx, rag, disk, store, script>>

\* line 543: a further read finds text past the position of the reader
LoadReadMore ==
    /\ fn.name = "load_index"
    /\ fn.pc = "more"
    /\ Len(ContentOf(disk.files[INDEX_FILE])) > Len(fn.buffer)
    /\ fn' = [fn EXCEPT !.buffer = @ \o SubSeq(ContentOf(disk.files[INDEX_FILE]),
                                               Len(fn.buffer) + 1,
                                               Len(ContentOf(disk.files[INDEX_FILE])))]
    /\ UNCHANGED <<split, idx, rag, disk, store, script>>

\* lines 543-548: the read at the end returns nothing, the text is decoded
LoadEof ==
    /\ fn.name = "load_index"
    /\ fn.pc = "more"
    /\ Len(ContentOf(disk.files[INDEX_FILE])) <= Len(fn.buffer)
    /\ LET r == LoadFromText(fn.buffer)
       IN  fn' = [fn EXCEPT !.pc = IF r.raised THEN "raised" ELSE "done",
                            !.raised = r.raised, !.result = r.result]
    /\ UNCHANGED <<split, idx, rag, disk, store, script>>

\* rag.py 247-248: query_with_rag goes on with what its load_index returned
RaceQuery ==
    /\ fn.name = "load_index"
    /\ fn.pc = "done"
    /\ fn.caller = "query_with_rag"
    /\ rag = RagIdle
    /\ rag' = QueryCall([p \in Paths |->
                            IF p = INDEX_FILE /\ fn.found
                            THEN FileStateOf(Some(File(fn.buffer)))
                            ELSE AbsentFile],
                        Some(<<1, 0>>), 1, Some(INDEX_FILE), None, None, TRUE)
    /\ UNCHANGED <<split, idx, disk, store, script, fn>>

NextRace ==
    \/ SaveEnsure \/ SaveOpen \/ SaveFlush \/ SaveClose
    \/ LoadCall \/ LoadExists \/ LoadRead \/ LoadReadMore \/ LoadEof
    \/ RaceQuery \/ RagLoad \/ RagSearch \/ RagFilter \/ RagRerank \/ RagTruncate
    \/ RagContext \/ RagPlain \/ RagAugmented

SpecRace == InitRace /\ [][NextRace]_vars

(***************************************************************************)
(* Properties of split_text_into_chunks                                    *)
(***************************************************************************)

\* 0 <= overlap < chunk_size
ValidConfig(s) == 0 <= s.overlap /\ s.overlap < s.chunk_size

\* ceil(a / b) for b > 0
CeilDiv(a, b) == (a + b - 1) \div b

\* C1: a call whose index is absent, whose query embedding is unavailable,
\* whose search raises or finds nothing, or whose results are all lost to
\* filter, rerank and truncation, does not raise: it calls the completion
\* service once, with the question as it came, and returns no sources.
C1_PlainAnswerFallback ==
    (/\ QueryDone(rag)
     /\ \/ rag.index = None
        \/ rag.embedding_service = None
        \/ rag.search_raised
        \/ rag.search_results = <<>>)
        => /\ rag.pc = "returned"
           /\ rag.sources = <<>>
           /\ rag.llm_calls = <<[prompt |-> PlainPrompt(rag.question),
                                 history |-> rag.conversation_history]>>

C1_Witness ==
    /\ rag.pc = "returned"
    /\ rag.index # None
    /\ rag.found > 0
    /\ rag.search_results = <<>>
    /\ rag.sources = <<>>
    /\ Len(rag.llm_calls) = 1

\* C2: in every call that returns, if the completion service was handed the
\* bare question (no context template), the sources list is empty.
C2_BareQuestionImpliesNoSources ==
    (rag.pc = "returned" /\ ~rag.llm_calls[1].prompt.template)
        => rag.sources = <<>>

\* what search, filter, rerank and truncation leave of an index for the
\* arguments of the call s
Surviving(s, index) ==
    LET found == search_index(s.embedding_service, index, s.top_k * 2).results
        filtered == IF s.use_filter /\ s.relevance_threshold # None
                    THEN filter_by_relevance_threshold(found, s.relevance_threshold)
                    ELSE found
        reranked == IF s.rerank_method # None
                    THEN rerank_results(filtered, ValueOf(s.rerank_method))
                    ELSE filtered
    IN  Prefix(reranked, s.top_k)

\* an index whose chunks all carry a text and an embedding
WellFormed(file) ==
    /\ file.kind = "index"
    /\ \A i \in 1..Len(file.chunks) :
          file.chunks[i].text # None /\ file.chunks[i].embedding # None

\* C3: with index_path None the index is loaded from INDEX_FILE: when a
\* well-formed index is there and results survive the search, the call takes
\* the augmented path and returns sources.
C3_DefaultIndexIsLoaded ==
    (/\ QueryDone(rag)
     /\ rag.index_path = None
     /\ WellFormed(rag.fs[INDEX_FILE])
     /\ Surviving(rag, Some(rag.fs[INDEX_FILE])) # <<>>)
        => /\ rag.pc = "returned"
           /\ rag.llm_calls[1].prompt.template
           /\ rag.sources # <<>>

\* C4: whenever chunk_size - overlap <= 0 the call raises and returns no
\* chunks, for every text, also one with len(text) <= chunk_size.
C4_RaisesWheneverStepNotPositive ==
    (SplitDone(split) /\ StepOf(split.chunk_size, split.overlap) <= 0)
        => (split.pc = "raised" /\ split.chunks = <<>>)

\* C5: called with chunk_overlap >= chunk_size and a non-empty list of
\* readable files, index_documents never returns an Index: the
\* misconfiguration is raised, no file is skipped for it.
C5_MisconfigurationNeverReturnsIndex ==
    (/\ OrDefault(idx.chunk_overlap, CHUNK_OVERLAP)
            >= OrDefault(idx.chunk_size, CHUNK_SIZE)
     /\ Len(idx.file_paths) >= 1
     /\ \A i \in 1..Len(idx.file_paths) : idx.file_paths[i].readable)
        => (idx.pc # "returned" /\ idx.index = None)

\* C6: for chunk_size > overlap >= 0 and any text (the empty one included)
\* every chunk has 0 <= start < end <= len(text), end - start <= chunk_size,
\* and the starts are strictly increasing.
C6_ChunkBoundsAndIncreasingStarts ==
    ValidConfig(split) =>
        /\ \A i \in 1..Len(split.chunks) :
              /\ 0 <= split.chunks[i].start
              /\ split.chunks[i].start < split.chunks[i].end
              /\ split.chunks[i].end <= Len(split.text)
              /\ split.chunks[i].end - split.chunks[i].start <= split.chunk_size
        /\ \A i \in 1..(Len(split.chunks) - 1) :
              split.chunks[i].start < split.chunks[i + 1].start

\* C7: for len(text) > chunk_size and 0 <= overlap < chunk_size the i-th
\* chunk (from 0) has chunk_index i, start i * (chunk_size - overlap) and
\* end min(start + chunk_size, len(text)).
C7_WindowPositions ==
    (ValidConfig(split) /\ Len(split.text) > split.chunk_size) =>
        \A i \in 1..Len(split.chunks) :
            /\ split.chunks[i].chunk_index = i - 1
            /\ split.chunks[i].start = (i - 1) * (split.chunk_size - split.overlap)
            /\ split.chunks[i].end =
                   Min(split.chunks[i].start + split.chunk_size, Len(split.text))

C7_Witness ==
    /\ split.pc = "returned"
    /\ ValidConfig(split)
    /\ split.overlap > 0
    /\ Len(split.text) > split.chunk_size
    /\ Len(split.chunks) >= 3
    /\ split.chunks[Len(split.chunks)].end
           < split.chunks[Len(split.chunks)].start + split.chunk_size

\* C8: for a valid configuration the returned chunks cover the text: the
\* first starts at 0, each next one starts no later than the previous end,
\* the last ends at len(text), and no chunk follows the first one whose end
\* reaches len(text).
C8_Coverage ==
    (split.pc = "returned" /\ ValidConfig(split)) =>
        /\ Len(split.chunks) >= 1
        /\ split.chunks[1].start = 0
        /\ \A i \in 1..(Len(split.chunks) - 1) :
              /\ split.chunks[i + 1].start <= split.chunks[i].end
              /\ split.chunks[i].end < Len(split.text)
        /\ split.chunks[Len(split.chunks)].end = Len(split.text)

C8_Witness ==
    /\ split.pc = "returned"
    /\ ValidConfig(split)
    /\ Len(split.chunks) >= 3
    /\ split.overlap > 0
    /\ split.chunks[Len(split.chunks)].end = Len(split.text)

\* C9: for 0 <= overlap < chunk_size the call returns exactly
\* ceil((L - O) / (C - O)) chunks when L > C, and exactly the one chunk
\* (0, L) when L <= C.
C9_ChunkCount ==
    (split.pc = "returned" /\ ValidConfig(split)) =>
        IF Len(split.text) > split.chunk_size
        THEN Len(split.chunks) =
                 CeilDiv(Len(split.text) - split.overlap,
                         split.chunk_size - split.overlap)
        ELSE /\ Len(split.chunks) = 1
             /\ split.chunks[1].start = 0
             /\ split.chunks[1].end = Len(split.text)

C9_Witness ==
    /\ split.pc = "returned"
    /\ ValidConfig(split)
    /\ Len(split.text) > split.chunk_size
    /\ Len(split.chunks) >= 4

\* C10: every call ends, raising or returning, after finitely many loop
\* iterations, and never holds more than 2 * estimated_chunks + 1 chunks.
C10_Terminates ==
    /\ <>SplitDone(split)
    /\ [](Len(split.chunks) <=
              2 * EstimatedChunks(Len(split.text),
                                  StepOf(split.chunk_size, split.overlap)) + 1)

C10_Witness ==
    /\ split.pc = "returned"
    /\ split.overlap < 0
    /\ Len(split.chunks) >= 2

\* the files of the file system are left as they are
FilesUntouched == disk'.files = disk.files

\* C11: when the availability probe at the start of index_documents fails,
\* the call raises ConnectionError before any input file is read and before
\* any embedding is requested, no step of the call writes a file, so an
\* index file that exists stays as it is, and an indexing script whose probe
\* fails exits with 1 before it calls index_documents or save_index.
C11_ProbeFailureAborts ==
    /\ [](idx.pc # "idle" /\ ~idx.available =>
            /\ idx.pc \in {"entry", "raised"}
            /\ idx.pc = "raised" => idx.error = "ConnectionError"
            /\ idx.file_i = 1
            /\ idx.all_chunks = <<>>
            /\ idx.embed_calls = 0
            /\ idx.index = None)
    /\ [](script.pc # "idle" /\ ~script.use_openai /\ ~script.available =>
            /\ script.pc \in {"files", "provider", "exited"}
            /\ script.pc = "exited" => script.exit_code = Some(1))
    /\ [][FilesUntouched]_vars

C11_Witness ==
    /\ idx.pc = "raised"
    /\ ~idx.available
    /\ Len(idx.file_paths) > 0
    /\ disk.files[INDEX_FILE] = Some(File(Dump(OldIndex)))

\* the positions of a batch whose embedding is not None
KeptPositions(embeddings) == {i \in 1..Len(embeddings) : embeddings[i] # None}

\* the k-th smallest element of a set of positions
NthOf(positions, k) ==
    CHOOSE i \in positions : Cardinality({j \in positions : j <= i}) = k

\* the chunks of a batch whose embedding succeeded, in order, each with its
\* embedding
KeptOf(batch, embeddings, store_text) ==
    [k \in 1..Cardinality(KeptPositions(embeddings)) |->
        Indexed(batch[NthOf(KeptPositions(embeddings), k)],
                embeddings[NthOf(KeptPositions(embeddings), k)], store_text)]

\* C12: an embedding that fails never aborts index_documents: from the
\* embedding phase the call only goes on or returns, every batch adds to the
\* indexed chunks exactly its chunks whose embedding is not None, in order
\* and with that embedding, and the returned Index holds the indexed chunks
\* with metadata.total_chunks equal to their number.
C12_FailedEmbeddingDropsChunkOnly ==
    /\ [][idx.pc = "embed" =>
            /\ idx'.pc \in {"embed", "returned"}
            /\ idx.batch_start + Len(idx.embeddings) < BatchEnd(idx) =>
                  idx'.indexed_chunks = idx.indexed_chunks
            /\ idx.batch_start + Len(idx.embeddings) = BatchEnd(idx) =>
                  idx'.indexed_chunks =
                      idx.indexed_chunks
                          \o KeptOf(SubSeq(idx.all_chunks, idx.batch_start + 1,
                                           BatchEnd(idx)),
                                    idx.embeddings, idx.store_text)]_vars
    /\ [](idx.pc = "returned" =>
            /\ ValueOf(idx.index).chunks = idx.indexed_chunks
            /\ ValueOf(idx.index).metadata.total_chunks = Len(idx.indexed_chunks)
            /\ idx.embed_calls = Len(idx.all_chunks) + 1)

C12_Witness ==
    /\ idx.pc = "returned"
    /\ Len(idx.indexed_chunks) > 0
    /\ Len(idx.indexed_chunks) < Len(idx.all_chunks) - 1

\* C13: in a returned Index every chunk's embedding has the length
\* metadata.embedding_dim, whatever the length of the vectors the embedding
\* service answered with.
C13_EmbeddingLengthIsEmbeddingDim ==
    idx.pc = "returned" =>
        \A i \in 1..Len(ValueOf(idx.index).chunks) :
            Len(ValueOf(idx.index).chunks[i].embedding)
                = ValueOf(idx.index).metadata.embedding_dim

\* the embedding outcomes of a finished call, read back from its indexed
\* chunks: the outcome of the i-th chunk of all_chunks
OutcomesOf(s) ==
    [i \in 1..Len(s.all_chunks) |->
        IF \E k \in 1..Len(s.indexed_chunks) :
               /\ s.indexed_chunks[k].source_file = s.all_chunks[i].source_file
               /\ s.indexed_chunks[k].chunk_index = s.all_chunks[i].chunk_index
        THEN Some((CHOOSE c \in {s.indexed_chunks[k] : k \in 1..Len(s.indexed_chunks)} :
                      /\ c.source_file = s.all_chunks[i].source_file
                      /\ c.chunk_index = s.all_chunks[i].chunk_index).embedding)
        ELSE None]

C15_LoadNeverRaisesNorRepairs ==
    /\ [](store.pc = "loaded" /\ store.path # None =>
            LET file == disk.files[ValueOf(store.path)]
            IN  /\ ~store.raised
                /\ (\/ file = None
                    \/ ~ValueOf(file).readable
                    \/ json_load(ValueOf(file).content) = None) => store.result = None
                /\ (/\ file # None
                    /\ ValueOf(file).readable
                    /\ json_load(ValueOf(file).content) \notin {None, Some(JNull)}) =>
                       /\ store.result # None
                       /\ Some(ValueOf(store.result).doc)
                              = json_load(ValueOf(file).content))
    /\ [][store'.pc = "loaded" => disk' = disk]_vars

C15_Witness ==
    /\ store.pc = "loaded"
    /\ store.path = Some(CustomPath)
    /\ disk.files[CustomPath] = Some(File(SubSeq(Dump(OldIndex), 1, 4)))
    /\ store.result = None

\* C16: load_index called after a save_index that returned at the same path
\* gives back a document equal to the Index that was saved; after two saves
\* at the path it is the second Index, nothing of the first being left.
C16_LoadReturnsLastSaved ==
    (/\ store.pc = "loaded"
     /\ store.path # None
     /\ store.saved[ValueOf(store.path)] # None) =>
        /\ store.result # None
        /\ ValueOf(store.result).doc = ValueOf(store.saved[ValueOf(store.path)])

C16_Witness ==
    /\ store.pc = "loaded"
    /\ store.path = Some(INDEX_FILE)
    /\ store.replaced[INDEX_FILE]
    /\ store.saved[INDEX_FILE] = Some(BuiltIndex(TwoFiles, TRUE, SecondFails))
    /\ store.result # None

(***************************************************************************)
(* Properties of search_index, cosine_similarity and                       *)
(* filter_by_relevance_threshold                                           *)
(***************************************************************************)
\* a call of search_index on an index with chunks and an embedded query that
\* has returned
SearchReturned ==
    /\ fn.pc = "done"
    /\ fn.name = "search_index"
    /\ fn.index # None
    /\ ValueOf(fn.index).kind = "index"
    /\ fn.query_embedding # None
    /\ ~fn.result.raised

SearchChunks == ValueOf(fn.index).chunks

\* the positions of the index whose chunk has an embedding
Candidates == {i \in 1..Len(SearchChunks) : SearchChunks[i].embedding # None}

SimilarityAt(i) ==
    cosine_similarity(ValueOf(fn.query_embedding),
                      ValueOf(SearchChunks[i].embedding)).value

\* the chunks of the results of similarity s, in the order of the results
ResultsAt(s) ==
    LET Same(r) == r.similarity = s
    IN  SelectSeq(fn.result.results, Same)

\* C17: the results of search_index are non-increasing in similarity, and
\* the results of one similarity are in the order in which their chunks
\* stand in the index (the ordering is stable).
C17_SortedAndStable ==
    SearchReturned =>
        /\ \A i, j \in 1..Len(fn.result.results) :
               i < j => fn.result.results[i].similarity
                            >= fn.result.results[j].similarity
        /\ \A s \in {fn.result.results[i].similarity : i \in 1..Len(fn.result.results)} :
               LET at == {i \in Candidates : SimilarityAt(i) = s}
               IN  /\ Len(ResultsAt(s)) <= Cardinality(at)
                   /\ \A k \in 1..Len(ResultsAt(s)) :
                          ResultsAt(s)[k].chunk = SearchChunks[NthOf(at, k)]

C17_Witness ==
    /\ SearchReturned
    /\ Len(fn.result.results) = 3
    /\ fn.result.results[1].similarity > fn.result.results[2].similarity
    /\ fn.result.results[2].similarity = fn.result.results[3].similarity
    /\ fn.result.results[2].chunk # fn.result.results[3].chunk
    /\ fn.result.results[1].chunk = SearchChunks[3]

\* whether the candidate at position j is ranked before the one at i
RankedBefore(j, i) ==
    \/ SimilarityAt(j) > SimilarityAt(i)
    \/ SimilarityAt(j) = SimilarityAt(i) /\ j < i

\* the position in the index of the candidate of rank k
RankedAt(k) ==
    CHOOSE i \in Candidates :
        Cardinality({j \in Candidates : RankedBefore(j, i)}) = k - 1

\* C18: for top_k >= 0 search_index returns the first min(top_k, N) entries
\* of the ranked list of the N chunks of the index that have an embedding,
\* with the ranks 1, 2, ... in order: at most top_k results, and all N
\* candidates with the ranks 1..N when top_k is larger than N.
C18_FirstTopKOfRanked ==
    SearchReturned =>
        /\ Len(fn.result.results) = Min(fn.top_k, Cardinality(Candidates))
        /\ \A k \in 1..Len(fn.result.results) :
               fn.result.results[k]
                   = [chunk |-> SearchChunks[RankedAt(k)],
                      similarity |-> SimilarityAt(RankedAt(k)),
                      rank |-> k]

C18_Witness ==
    /\ SearchReturned
    /\ fn.top_k = 2
    /\ Len(SearchChunks) = 3
    /\ Cardinality(Candidates) = 3
    /\ Len(fn.result.results) = 2
    /\ fn.result.results[1].chunk = SearchChunks[3]

\* a top_k larger than the number of candidates, one chunk having no
\* embedding
C18_WitnessAll ==
    /\ SearchReturned
    /\ fn.top_k = MaxSearchTopK
    /\ Cardinality(Candidates) = 2
    /\ Len(SearchChunks) = 3
    /\ Len(fn.result.results) = 2

IsZeroVector(v) == \A i \in 1..Len(v) : v[i] = 0

CosineReturned ==
    /\ fn.pc = "done"
    /\ fn.name = "cosine_similarity"
    /\ ~fn.result.raised

\* cosine_similarity returns 0.0 when a vector has zero magnitude
ZeroMagnitudeGivesZero ==
    (CosineReturned /\ (IsZeroVector(fn.vec1) \/ IsZeroVector(fn.vec2))) =>
        fn.result.value = FloatZero

\* dot(a, b)^2 <= |a|^2 * |b|^2 on the integers
CauchySchwarz ==
    CosineReturned =>
        Dot(fn.vec1, fn.vec2, 1) * Dot(fn.vec1, fn.vec2, 1)
            <= Dot(fn.vec1, fn.vec1, 1) * Dot(fn.vec2, fn.vec2, 1)

\* C19: cosine_similarity returns 0.0 whenever a vector has zero magnitude,
\* and for two vectors of equal length that are not zero its result lies in
\* [-1, 1].
C19_ZeroOrInUnitRange ==
    /\ ZeroMagnitudeGivesZero
    /\ CosineReturned => InUnitRange(fn.result.value)

FilterReturned == fn.pc = "done" /\ fn.name = "filter_by_relevance_threshold"

\* whether the threshold of the call lets every result through
PassThrough == fn.threshold = None \/ ValueOf(fn.threshold) <= 0 - Scale

\* the positions of the results of similarity >= the threshold
Relevant ==
    {i \in 1..Len(fn.results) : fn.results[i].similarity >= ValueOf(fn.threshold)}

\* C20: filter_by_relevance_threshold(results, t) returns exactly the
\* results of similarity >= t, in their order and as they were, and all the
\* results when t is None or t <= -1.0; the list passed in is not changed;
\* a call always returns a sequence, possibly empty.
C20_FilterKeepsRelevantInOrder ==
    /\ [](FilterReturned =>
            IF PassThrough
            THEN fn.output = fn.results
            ELSE /\ Len(fn.output) = Cardinality(Relevant)
                 /\ \A k \in 1..Len(fn.output) :
                        fn.output[k] = fn.results[NthOf(Relevant, k)])
    /\ [][fn'.results = fn.results]_vars

C20_Witness ==
    /\ FilterReturned
    /\ fn.threshold = Some(50)
    /\ Len(fn.results) = 3
    /\ fn.results[1].similarity = 0
    /\ fn.results[2].similarity = Scale
    /\ fn.results[3].similarity = 50
    /\ Len(fn.output) = 2
    /\ fn.output[2].rank = 3

(***************************************************************************)
(* Properties of rerank_results                                            *)
(***************************************************************************)
RerankReturned == fn.name = "rerank_results" /\ fn.pc \in {"done", "twice"}

\* C21: with a method name that is none of similarity, diversity and hybrid
\* rerank_results returns what it returns for "similarity": the results in
\* the order given, with the ranks 1..n.
C21_UnknownMethodIsSimilarity ==
    (RerankReturned /\ fn.method \notin {"similarity", "diversity", "hybrid"}) =>
        /\ fn.output = rerank_results(fn.results, "similarity")
        /\ Len(fn.output) = Len(fn.results)
        /\ \A i \in 1..Len(fn.output) :
               fn.output[i] = [fn.results[i] EXCEPT !.rank = i]

C21_Witness ==
    /\ RerankReturned
    /\ fn.method = "Diversity"
    /\ Len(fn.results) = 3
    /\ Normalized(fn.results[1].chunk) = Normalized(fn.results[2].chunk)
    /\ fn.results[1].similarity < fn.results[3].similarity
    /\ fn.output[3].rank = 3

\* the positions of the results whose normalized text is that of no earlier
\* result
FirstOccurrences ==
    {i \in 1..Len(fn.results) :
        \A j \in 1..(i - 1) :
            Normalized(fn.results[j].chunk) # Normalized(fn.results[i].chunk)}

\* C22: rerank_results(R, "diversity") removes a result exactly when its
\* normalized chunk text is that of an earlier result of R; every other
\* result, with an empty or missing text too, is kept, in the order of R.
C22_DiversityRemovesOnlyDuplicates ==
    (RerankReturned /\ fn.method = "diversity") =>
        /\ Len(fn.output) = Cardinality(FirstOccurrences)
        /\ \A k \in 1..Len(fn.output) :
               fn.output[k] = [fn.results[NthOf(FirstOccurrences, k)] EXCEPT !.rank = k]

\* C23: the output of rerank_results(R, "diversity") holds no two results
\* of one normalized chunk text, and the diversity rerank of that output is
\* the output again: the same results, order and ranks.
C23_DiversityUniqueAndIdempotent ==
    (RerankReturned /\ fn.method = "diversity") =>
        /\ \A i, j \in 1..Len(fn.output) :
               i # j => Normalized(fn.output[i].chunk) # Normalized(fn.output[j].chunk)
        /\ fn.pc = "twice" => fn.again = fn.output

C23_Witness ==
    /\ fn.name = "rerank_results"
    /\ fn.pc = "twice"
    /\ fn.method = "diversity"
    /\ Len(fn.results) = 3
    /\ Len(fn.output) = 2
    /\ fn.results[1].chunk # fn.results[2].chunk
    /\ Normalized(fn.results[1].chunk) = Normalized(fn.results[2].chunk)
    /\ fn.again = fn.output

(***************************************************************************)
(* Properties of query_with_rag: oversampling                              *)
(***************************************************************************)
\* what search_index gives the call when asked for n results; nothing when
\* no index was loaded or the search raised
SearchedFor(n) ==
    IF load_index(rag.fs, rag.index_path) = None
    THEN <<>>
    ELSE LET r == search_index(rag.embedding_service,
                               load_index(rag.fs, rag.index_path), n)
         IN  IF r.raised THEN <<>> ELSE r.results

\* the filter and the rerank of the call, as far as they are switched on
FilteredAndReranked(results) ==
    LET filtered == IF rag.use_filter /\ rag.relevance_threshold # None
                    THEN filter_by_relevance_threshold(results, rag.relevance_threshold)
                    ELSE results
    IN  IF rag.rerank_method # None
        THEN rerank_results(filtered, ValueOf(rag.rerank_method))
        ELSE filtered

BatchCallActive == fn.name = "get_embeddings_batch"

\* the failures of one item: the empty text, a connection failure, a
\* timeout, a status outside 2xx, a body that is not JSON or lacks the vector
ItemFailed(text, answer) ==
    \/ Len(text) = 0
    \/ answer = None
    \/ ValueOf(answer).error # "none"
    \/ ValueOf(answer).status < 200
    \/ ValueOf(answer).status > 299
    \/ ValueOf(answer).body # "vector"

\* C25: get_embeddings_batch never raises and returns one entry per text, in
\* the order of the texts: None for a text whose call failed (empty text,
\* connection failure, timeout, status outside 2xx, malformed body), the
\* vector otherwise; a failure neither stops nor reorders the other calls.
C25_BatchKeepsEveryOutcome ==
    BatchCallActive =>
        /\ fn.pc # "raised"
        /\ \A i \in 1..Len(fn.embeddings) :
               fn.embeddings[i] = IF ItemFailed(fn.texts[i], fn.answers[i])
                                  THEN None ELSE Some(<<1, 0>>)
        /\ fn.pc = "done" =>
               /\ Len(fn.embeddings) = Len(fn.texts)
               /\ fn.posted = SelectSeq(fn.texts, LAMBDA t : Len(t) > 0)

(***************************************************************************)
(* Properties of queries over one loaded index                             *)
(***************************************************************************)
SharedActive == fn.name = "queries"

\* the results of a query run alone on the index as loaded
AloneResults(index, q) ==
    rerank_results(
        filter_by_relevance_threshold(
            search_index(q.query_embedding, Some(index), q.top_k).results, q.threshold),
        q.method)

\* C26: search, filter, rerank and context assembly leave the loaded index
\* as it was, and under every interleaving of two queries each query ends
\* with the results and the context it gets when it runs alone.
C26_SnapshotSharedSafely ==
    SharedActive =>
        /\ fn.index = fn.loaded
        /\ \A i \in Queries :
               fn.q[i].pc = "done" =>
                   /\ SourcesOf(Deref(fn.index, fn.q[i].results))
                          = SourcesOf(AloneResults(fn.loaded, fn.q[i]))
                   /\ fn.q[i].context
                          = format_chunks_for_context(AloneResults(fn.loaded, fn.q[i]))

\* two queries with different settings have run interleaved over an index
\* whose best chunk has a text that normalization would change
C26_Witness ==
    /\ SharedActive
    /\ fn.overlapped
    /\ \A i \in Queries : fn.q[i].pc = "done" /\ fn.q[i].context # <<>>
    /\ fn.q[1].method # fn.q[2].method
    /\ \E j \in 1..Len(fn.index.chunks) :
           /\ Normalized(fn.index.chunks[j]) # TextOf(fn.index.chunks[j])
           /\ \A i \in Queries : \E k \in 1..Len(fn.q[i].results) : fn.q[i].results[k].ref = j

(***************************************************************************)
(* Properties of analyze_review_for_critical_issues                        *)
(***************************************************************************)
AnalyzeReturned == fn.name = "analyze_review_for_critical_issues" /\ fn.pc = "done"

\* the input is None, no str, or a text (empty and blank ones included) in
\* which neither pattern matches and no section header stands
NoIndicator(review_text) ==
    \/ review_text.kind # "str"
    \/ /\ MatchedCategories(review_text.text, 1) = {}
       /\ ~IssueFound(review_text.text)
       /\ Find(review_text.text, HeaderLower, 1) = 0
       /\ Find(review_text.text, HeaderUpper, 1) = 0

C27_WitnessClean ==
    /\ AnalyzeReturned
    /\ fn.review_text.kind = "str"
    /\ fn.review_text.text = <<" ", "$">>
    /\ ~fn.result.has_issues

(***************************************************************************)
(* Properties of query_with_rag: the completion call                       *)
(***************************************************************************)
\* the stage that follows a stage when the retrieval goes on
StageAfter(pc) ==
    CASE pc = "entry" -> "search"
      [] pc = "search" -> "filter"
      [] pc = "filter" -> "rerank"
      [] pc = "rerank" -> "truncate"
      [] pc = "truncate" -> "context"
      [] pc = "context" -> "augmented"
      [] pc = "augmented" -> "returned"
      [] pc = "plain" -> "returned"
      [] OTHER -> pc

\* the stages after which the call may turn to the plain question
MayFallBack(pc) == pc \in {"entry", "search", "truncate"}

\* C28: every call of query_with_rag that returns has called query_openai
\* exactly once, with the history of the caller, and as its last step: the
\* stages before it run in the order load, search, filter, rerank, truncate,
\* build context, from which only load, search and truncate may turn to the
\* plain call.
C28_OneCompletionAfterRetrieval ==
    /\ [](rag.pc = "returned" =>
              /\ Len(rag.llm_calls) = 1
              /\ rag.llm_calls[1].history = rag.conversation_history)
    /\ [](rag.pc \notin {"idle", "returned"} => rag.llm_calls = <<>>)
    /\ [][/\ rag'.conversation_history = rag.conversation_history
          /\ \/ rag'.pc = StageAfter(rag.pc)
             \/ MayFallBack(rag.pc) /\ rag'.pc = "plain"]_rag

\* a call that went through filter and rerank and returned after one
\* completion call with the RAG prompt
C28_Witness ==
    /\ rag.pc = "returned"
    /\ rag.use_filter
    /\ rag.relevance_threshold # None
    /\ rag.rerank_method # None
    /\ Len(rag.llm_calls) = 1
    /\ rag.rag_prompt # None
    /\ rag.llm_calls[1].prompt = ValueOf(rag.rag_prompt)
    /\ rag.llm_calls[1].prompt.template
    /\ rag.llm_calls[1].history = "h"

\* a call that found nothing and returned after one completion call with the
\* question
C28_WitnessPlain ==
    /\ rag.pc = "returned"
    /\ rag.index # None
    /\ rag.found = 0
    /\ rag.llm_calls = <<[prompt |-> PlainPrompt("q"), history |-> "h"]>>

(***************************************************************************)
(* Properties of the indexing scripts                                      *)
(***************************************************************************)
\* the check of the embedding provider passed
ProviderPassed(s) == IF s.use_openai THEN s.api_key ELSE s.available

\* C29: a run of an indexing script that found at least one file and whose
\* provider check passed calls index_documents and save_index and ends with
\* exit status 0.
C29_ScriptEndsWithIndexSaved ==
    (/\ script.pc = "exited"
     /\ script.files_found > 0
     /\ ProviderPassed(script))
        => script.exit_code = Some(0)

(***************************************************************************)
(* Properties of save_index with a reader of the same path                 *)
(***************************************************************************)
RaceActive == fn.name = "load_index"

\* what a load may return: None, the document the file held before the
\* save, or the document that is saved
CompleteOrAbsent ==
    {None, Some(store.index)}
        \cup (IF store.previous = None THEN {}
              ELSE {json_load(ValueOf(store.previous).content)})

C30_WitnessMixed ==
    /\ RaceActive
    /\ fn.pc = "done"
    /\ store.previous # None
    /\ Len(fn.buffer) > Len(ValueOf(store.previous).content)
    /\ SubSeq(fn.buffer, 1, Len(ValueOf(store.previous).content))
           = ValueOf(store.previous).content
    /\ fn.result = None

\* a query that loaded during the save and answered without sources
C30_WitnessQuery ==
    /\ RaceActive
    /\ fn.caller = "query_with_rag"
    /\ fn.found
    /\ fn.result = None
    /\ store.pc = "dump"
    /\ rag.pc = "returned"
    /\ rag.sources = <<>>

=============================================================================
